---------------------------- MODULE Spec2Model ----------------------------
(***************************************************************************)
(* A model of the repo-to-mermaid generator: the token calculator and the  *)
(* bucket planner (src/core), the accumulator and the sanitizer            *)
(* (src/output/MermaidGenerator.ts), the state store                       *)
(* (src/output/StateManager.ts) and the command-line run (src/cli.ts).     *)
(*                                                                         *)
(* A text is a sequence of one-character strings; the empty text is <<>>.  *)
(***************************************************************************)
EXTENDS Integers, Sequences, FiniteSets, TLC

VARIABLES
    maxTokensPerBucket,  \* BucketManager.maxTokensPerBucket
    tokenThreshold,      \* BucketManager.tokenThreshold, in tenths
    skippedFiles,        \* BucketManager.skippedFiles
    files,               \* the FileInfo list the caller holds
    pool,                \* the ProcessingBucket objects the caller holds
    lastOp,              \* the last planner call: its arguments and results
    resp,                \* the generator: its answer for each bucket
    existingMermaid,     \* the diagram loaded from --existing-mermaid
    buckets0,            \* the buckets createBuckets returned to the run
    phase,               \* which run is under way
    pc,                  \* where processBuckets stands
    i,                   \* processBuckets: the loop index i
    state,               \* processBuckets: the local ProcessingState
    pbBuckets,           \* processBuckets: the bucket objects it was given
    pbOffset,            \* how many buckets precede pbBuckets in buckets0
    calls,               \* every llmClient.processBucket invocation so far
    result,              \* what processBuckets returned: <<>> or <<state>>
    error,               \* what processBuckets threw: <<>> or <<error>>
    fullResult,          \* what the uninterrupted run returned
    smState,             \* StateManager.state: <<>> stands for null
    stateFile,           \* the state file on disk: <<>> when there is none
    checkpointFile,      \* the checkpoint file on disk: <<>> when there is none
    checkpointed,        \* what the last createCheckpoint that returned was given
    includeSummary,      \* MermaidGenerator.includeSummary
    mergeCalls,          \* every llmClient.mergeOrRepairMermaid invocation so far
    warnings,            \* what generateFinalMermaidFile warned of
    outputFile,          \* the output file on disk: <<>> when there is none
    sanText,             \* the diagram text a caller passes through the sanitizer
    passes               \* how many times sanText has been sanitized

plannerVars == <<maxTokensPerBucket, tokenThreshold, skippedFiles, files, pool, lastOp>>

finalVars == <<includeSummary, mergeCalls, warnings, outputFile>>

runVars ==
    <<resp, existingMermaid, buckets0, phase, pc, i, state, pbBuckets, pbOffset,
      calls, result, error, fullResult, smState, stateFile, checkpointFile, checkpointed, finalVars>>

sanVars == <<sanText, passes>>

vars == <<plannerVars, runVars, sanVars>>

-----------------------------------------------------------------------------
(* Bounds of the model *)

MaxFiles == 3

\* createBuckets is not called again once the skip list is this long
MaxSkipped == 2

\* createBuckets hands the run at most this many buckets
MaxBuckets == 3

\* a diagram text passed through the sanitizer has at most this many characters
MaxText == 4

\* a diagram text is passed through the sanitizer at most this many times
MaxPasses == 2

\* the length of the content of a file that is weighed
MaxContent == 4

\* how many heavy files the planner is given
MaxHeavyFiles == 2

\* The caller of the skip list hands createBuckets at most this many files
MaxSkipFiles == 2

\* how many files the caller who edits buckets holds
MaxEditFiles == 3

\* updateState is not called again once processed_files is this high
MaxProcessed == 2

-----------------------------------------------------------------------------
(* Generic helpers on sequences and texts *)

Max2(a, b) == IF a >= b THEN a ELSE b

Min2(a, b) == IF a <= b THEN a ELSE b

RECURSIVE SumSeq(_)
SumSeq(s) == IF s = <<>> THEN 0 ELSE Head(s) + SumSeq(Tail(s))

RECURSIVE Flatten(_)
Flatten(ss) == IF ss = <<>> THEN <<>> ELSE Head(ss) \o Flatten(Tail(ss))

Range(s) == {s[k] : k \in DOMAIN s}

Slice(s, a, b) == IF a > b THEN <<>> ELSE SubSeq(s, a, b)

\* the white space of trim() and of \s that the texts of the model hold
WhiteSpace == {" ", "\n", "\t", "\r"}

StartsWith(s, p) == Len(s) >= Len(p) /\ SubSeq(s, 1, Len(p)) = p

RECURSIVE TrimLeft(_)
TrimLeft(s) == IF s # <<>> /\ Head(s) \in WhiteSpace THEN TrimLeft(Tail(s)) ELSE s

RECURSIVE TrimRight(_)
TrimRight(s) ==
    IF s # <<>> /\ s[Len(s)] \in WhiteSpace THEN TrimRight(SubSeq(s, 1, Len(s) - 1)) ELSE s

\* String.prototype.trim
Trim(s) == TrimRight(TrimLeft(s))

\* String.prototype.split on one separator character: the pieces between
\* the separators, empty pieces kept.
RECURSIVE SplitChar(_, _, _)
SplitChar(s, sep, cur) ==
    IF s = <<>> THEN <<cur>>
    ELSE IF Head(s) = sep THEN <<cur>> \o SplitChar(Tail(s), sep, <<>>)
    ELSE SplitChar(Tail(s), sep, Append(cur, Head(s)))

\* String.prototype.split on a class of separator characters taken one or
\* more at a time, followed by filter(word => word.length > 0).
RECURSIVE SplitWords(_, _, _)
SplitWords(s, seps, cur) ==
    IF s = <<>> THEN (IF cur = <<>> THEN <<>> ELSE <<cur>>)
    ELSE IF Head(s) \in seps
         THEN (IF cur = <<>> THEN <<>> ELSE <<cur>>) \o SplitWords(Tail(s), seps, <<>>)
         ELSE SplitWords(Tail(s), seps, Append(cur, Head(s)))

CountIn(s, set) == Cardinality({k \in DOMAIN s : s[k] \in set})

CeilDiv(a, b) == (a + b - 1) \div b

-----------------------------------------------------------------------------
(* TokenCalculator *)

tokenPerCharRatio == 4

isCommentLine(line) ==
    \/ StartsWith(line, <<"/", "/">>)
    \/ StartsWith(line, <<"#">>)
    \/ StartsWith(line, <<"/", "*">>)
    \/ StartsWith(line, <<"*">>)
    \/ StartsWith(line, <<"<", "!", "-", "-">>)
    \/ StartsWith(line, <<"'">>)
    \/ StartsWith(line, <<";">>)

\* the grave accent cannot be written in a string of this language
Backtick == "<grave>"

WordDelimiters ==
    WhiteSpace \cup {",", ";", "(", ")", "{", "}", "[", "]", "\"", "'", Backtick}

StructureChars == {"{", "}", "(", ")", ";", ","}

\* tokens = sum of ceil(word.length / ratio) + 0.5 per structure character;
\* Math.max(1, Math.ceil(tokens)).  Twice the tokens is kept so that the
\* halves stay integers.
estimateLineTokens(line) ==
    LET words == SplitWords(line, WordDelimiters, <<>>)
        wordTokens == SumSeq([k \in DOMAIN words |-> CeilDiv(Len(words[k]), tokenPerCharRatio)])
        twice == 2 * wordTokens + CountIn(line, StructureChars)
    IN  Max2(1, CeilDiv(twice, 2))

\* estimateTokens returning the count as it is, without Math.max(1, ...)
estimateTokensNoFloor(content) ==
    LET lines == SplitChar(content, "\n", <<>>)
        lineTokens(line) ==
            LET trimmedLine == Trim(line)
            IN  IF trimmedLine = <<>> \/ isCommentLine(trimmedLine)
                THEN 0
                ELSE estimateLineTokens(trimmedLine)
    IN  SumSeq([k \in DOMAIN lines |-> lineTokens(lines[k])])

estimateTokens(content) ==
    LET lines == SplitChar(content, "\n", <<>>)
        lineTokens(line) ==
            LET trimmedLine == Trim(line)
            IN  IF trimmedLine = <<>> \/ isCommentLine(trimmedLine)
                THEN 0
                ELSE estimateLineTokens(trimmedLine)
        tokenCount == SumSeq([k \in DOMAIN lines |-> lineTokens(lines[k])])
    IN  Max2(1, tokenCount)

calculateFileTokens(file) ==
    IF file.estimated_tokens > 0
    THEN file.estimated_tokens
    ELSE estimateTokens(file.content)

calculateTotalTokens(fs) == SumSeq([k \in DOMAIN fs |-> calculateFileTokens(fs[k])])

-----------------------------------------------------------------------------
(* BucketManager *)

hardLimit == 100000

\* tokenThreshold is kept in tenths: 9 stands for the default 0.9
ThresholdDen == 10

\* currentTokenCount + fileTokens > maxTokensPerBucket * tokenThreshold
OverThreshold(tokens, maxTokens, threshold) ==
    tokens * ThresholdDen > maxTokens * threshold

\* The value of an object property that was never set; no text equals it.
Undefined == <<"<undefined>">>

\* JavaScript truthiness of an optional string, and a || b
Falsy(t) == t = Undefined \/ t = <<>>

OrElse(a, b) == IF Falsy(a) THEN b ELSE a

createBucket(fs, totalTokens) ==
    [files |-> fs, total_tokens |-> totalTokens,
     summary |-> Undefined, mermaid_content |-> Undefined]

\* [...files].sort((a, b) => b.estimated_tokens - a.estimated_tokens):
\* a stable sort, largest estimated_tokens first, on a copy of the list.
RECURSIVE InsertByTokens(_, _)
InsertByTokens(sorted, file) ==
    IF sorted = <<>> THEN <<file>>
    ELSE IF Head(sorted).estimated_tokens >= file.estimated_tokens
         THEN <<Head(sorted)>> \o InsertByTokens(Tail(sorted), file)
         ELSE <<file>> \o sorted

RECURSIVE sortFilesByTokens(_)
sortFilesByTokens(fs) ==
    IF fs = <<>> THEN <<>>
    ELSE InsertByTokens(sortFilesByTokens(SubSeq(fs, 1, Len(fs) - 1)), fs[Len(fs)])

SkipRecord(file, fileTokens) ==
    [path |-> file.path,
     size |-> file.size,
     reason |-> <<"File ", "exceeds hard limit", " of ", ToString(hardLimit),
                  " tokens (estimated: ", ToString(fileTokens), " tokens)">>]

\* createBucketsStep with the running count carried over when a bucket is
\* closed (currentTokenCount += fileTokens in place of = fileTokens)
createBucketsStepKeepsCount(st, file, maxTokens, threshold) ==
    LET fileTokens == calculateFileTokens(file)
        closes == \/ st.currentTokenCount + fileTokens > hardLimit
                  \/ OverThreshold(st.currentTokenCount + fileTokens, maxTokens, threshold)
    IN  IF fileTokens > hardLimit
        THEN [st EXCEPT !.skipped = Append(@, SkipRecord(file, fileTokens))]
        ELSE IF closes /\ Len(st.currentBucket) > 0
        THEN [st EXCEPT
                !.buckets = Append(@, createBucket(st.currentBucket, st.currentTokenCount)),
                !.currentBucket = <<file>>,
                !.currentTokenCount = @ + fileTokens]
        ELSE [st EXCEPT
                !.currentBucket = Append(@, file),
                !.currentTokenCount = @ + fileTokens]

\* createBucketsStep without the check of the hard limit on the bucket
createBucketsStepNoHardCheck(st, file, maxTokens, threshold) ==
    LET fileTokens == calculateFileTokens(file)
    IN  IF fileTokens > hardLimit
        THEN [st EXCEPT !.skipped = Append(@, SkipRecord(file, fileTokens))]
        ELSE IF /\ OverThreshold(st.currentTokenCount + fileTokens, maxTokens, threshold)
                /\ Len(st.currentBucket) > 0
        THEN [st EXCEPT
                !.buckets = Append(@, createBucket(st.currentBucket, st.currentTokenCount)),
                !.currentBucket = <<file>>,
                !.currentTokenCount = fileTokens]
        ELSE [st EXCEPT
                !.currentBucket = Append(@, file),
                !.currentTokenCount = @ + fileTokens]

\* createBucketsStep skipping a file already at the hard limit (>= for >)
createBucketsStepSkipsAtLimit(st, file, maxTokens, threshold) ==
    LET fileTokens == calculateFileTokens(file)
        closes == \/ st.currentTokenCount + fileTokens > hardLimit
                  \/ OverThreshold(st.currentTokenCount + fileTokens, maxTokens, threshold)
    IN  IF fileTokens >= hardLimit
        THEN [st EXCEPT !.skipped = Append(@, SkipRecord(file, fileTokens))]
        ELSE IF closes /\ Len(st.currentBucket) > 0
        THEN [st EXCEPT
                !.buckets = Append(@, createBucket(st.currentBucket, st.currentTokenCount)),
                !.currentBucket = <<file>>,
                !.currentTokenCount = fileTokens]
        ELSE [st EXCEPT
                !.currentBucket = Append(@, file),
                !.currentTokenCount = @ + fileTokens]

\* createBucketsStep without the test of the threshold: a bucket is closed
\* at the hard limit only
createBucketsStepNoThreshold(st, file, maxTokens, threshold) ==
    LET fileTokens == calculateFileTokens(file)
    IN  IF fileTokens > hardLimit
        THEN [st EXCEPT !.skipped = Append(@, SkipRecord(file, fileTokens))]
        ELSE IF st.currentTokenCount + fileTokens > hardLimit /\ Len(st.currentBucket) > 0
        THEN [st EXCEPT
                !.buckets = Append(@, createBucket(st.currentBucket, st.currentTokenCount)),
                !.currentBucket = <<file>>,
                !.currentTokenCount = fileTokens]
        ELSE [st EXCEPT
                !.currentBucket = Append(@, file),
                !.currentTokenCount = @ + fileTokens]

\* createBucketsStep closing a bucket above the capacity, not above the
\* threshold's share of it (maxTokensPerBucket in place of
\* maxTokensPerBucket * tokenThreshold)
createBucketsStepAtCapacity(st, file, maxTokens, threshold) ==
    LET fileTokens == calculateFileTokens(file)
        closes == \/ st.currentTokenCount + fileTokens > hardLimit
                  \/ st.currentTokenCount + fileTokens > maxTokens
    IN  IF fileTokens > hardLimit
        THEN [st EXCEPT !.skipped = Append(@, SkipRecord(file, fileTokens))]
        ELSE IF closes /\ Len(st.currentBucket) > 0
        THEN [st EXCEPT
                !.buckets = Append(@, createBucket(st.currentBucket, st.currentTokenCount)),
                !.currentBucket = <<file>>,
                !.currentTokenCount = fileTokens]
        ELSE [st EXCEPT
                !.currentBucket = Append(@, file),
                !.currentTokenCount = @ + fileTokens]

\* One iteration of the loop of createBuckets on the loop state
\* [buckets, currentBucket, currentTokenCount, skipped].
createBucketsStep(st, file, maxTokens, threshold) ==
    LET fileTokens == calculateFileTokens(file)
    IN  IF fileTokens > hardLimit
        THEN [st EXCEPT !.skipped = Append(@, SkipRecord(file, fileTokens))]
        ELSE IF st.currentTokenCount + fileTokens > hardLimit /\ Len(st.currentBucket) > 0
        THEN [st EXCEPT
                !.buckets = Append(@, createBucket(st.currentBucket, st.currentTokenCount)),
                !.currentBucket = <<file>>,
                !.currentTokenCount = fileTokens]
        ELSE IF /\ OverThreshold(st.currentTokenCount + fileTokens, maxTokens, threshold)
                /\ Len(st.currentBucket) > 0
        THEN [st EXCEPT
                !.buckets = Append(@, createBucket(st.currentBucket, st.currentTokenCount)),
                !.currentBucket = <<file>>,
                !.currentTokenCount = fileTokens]
        ELSE [st EXCEPT
                !.currentBucket = Append(@, file),
                !.currentTokenCount = @ + fileTokens]

RECURSIVE createBucketsLoop(_, _, _, _)
createBucketsLoop(sortedFiles, st, maxTokens, threshold) ==
    IF sortedFiles = <<>> THEN st
    ELSE createBucketsLoop(Tail(sortedFiles),
                           createBucketsStep(st, Head(sortedFiles), maxTokens, threshold),
                           maxTokens, threshold)

\* createBuckets(files): the returned buckets and the skip records pushed
createBuckets(fs, maxTokens, threshold) ==
    LET st0 == [buckets |-> <<>>, currentBucket |-> <<>>,
                currentTokenCount |-> 0, skipped |-> <<>>]
        st == createBucketsLoop(sortFilesByTokens(fs), st0, maxTokens, threshold)
    IN  [buckets |-> IF Len(st.currentBucket) > 0
                     THEN Append(st.buckets, createBucket(st.currentBucket, st.currentTokenCount))
                     ELSE st.buckets,
         skipped |-> st.skipped]

\* The loop of splitBucket closing a bucket at the hard limit, as
\* createBuckets does, in place of the capacity
RECURSIVE splitBucketLoopAtHardLimit(_, _, _)
splitBucketLoopAtHardLimit(sortedFiles, st, maxTokens) ==
    IF sortedFiles = <<>> THEN st
    ELSE LET file == Head(sortedFiles)
             fileTokens == calculateFileTokens(file)
             next ==
                IF st.currentTokenCount + fileTokens > hardLimit /\ Len(st.currentBucket) > 0
                THEN [st EXCEPT
                        !.buckets = Append(@, createBucket(st.currentBucket, st.currentTokenCount)),
                        !.currentBucket = <<file>>,
                        !.currentTokenCount = fileTokens]
                ELSE [st EXCEPT
                        !.currentBucket = Append(@, file),
                        !.currentTokenCount = @ + fileTokens]
         IN  splitBucketLoopAtHardLimit(Tail(sortedFiles), next, maxTokens)

\* The loop of splitBucket starting the next bucket empty when it closes
\* one (currentBucket = [] in place of [file])
RECURSIVE splitBucketLoopDropsFile(_, _, _)
splitBucketLoopDropsFile(sortedFiles, st, maxTokens) ==
    IF sortedFiles = <<>> THEN st
    ELSE LET file == Head(sortedFiles)
             fileTokens == calculateFileTokens(file)
             next ==
                IF st.currentTokenCount + fileTokens > maxTokens /\ Len(st.currentBucket) > 0
                THEN [st EXCEPT
                        !.buckets = Append(@, createBucket(st.currentBucket, st.currentTokenCount)),
                        !.currentBucket = <<>>,
                        !.currentTokenCount = 0]
                ELSE [st EXCEPT
                        !.currentBucket = Append(@, file),
                        !.currentTokenCount = @ + fileTokens]
         IN  splitBucketLoopDropsFile(Tail(sortedFiles), next, maxTokens)

\* splitBucket(bucket): the returned list; [bucket] itself when it fits
RECURSIVE splitBucketLoop(_, _, _)
splitBucketLoop(sortedFiles, st, maxTokens) ==
    IF sortedFiles = <<>> THEN st
    ELSE LET file == Head(sortedFiles)
             fileTokens == calculateFileTokens(file)
             next ==
                IF st.currentTokenCount + fileTokens > maxTokens /\ Len(st.currentBucket) > 0
                THEN [st EXCEPT
                        !.buckets = Append(@, createBucket(st.currentBucket, st.currentTokenCount)),
                        !.currentBucket = <<file>>,
                        !.currentTokenCount = fileTokens]
                ELSE [st EXCEPT
                        !.currentBucket = Append(@, file),
                        !.currentTokenCount = @ + fileTokens]
         IN  splitBucketLoop(Tail(sortedFiles), next, maxTokens)

splitBucket(bucket, maxTokens) ==
    IF bucket.total_tokens <= maxTokens
    THEN <<bucket>>
    ELSE LET st0 == [buckets |-> <<>>, currentBucket |-> <<>>, currentTokenCount |-> 0]
             st == splitBucketLoop(sortFilesByTokens(bucket.files), st0, maxTokens)
         IN  IF Len(st.currentBucket) > 0
             THEN Append(st.buckets, createBucket(st.currentBucket, st.currentTokenCount))
             ELSE st.buckets

\* mergeBuckets without the test of the capacity
mergeBucketsAlways(bucket1, bucket2, maxTokens) ==
    [ret |-> <<[files |-> bucket1.files \o bucket2.files,
                total_tokens |-> bucket1.total_tokens + bucket2.total_tokens,
                summary |-> OrElse(bucket1.summary, bucket2.summary),
                mermaid_content |-> OrElse(bucket1.mermaid_content,
                                           bucket2.mermaid_content)]>>,
     bucket1 |-> bucket1,
     bucket2 |-> bucket2]

\* mergeBuckets pushing bucket2's files onto bucket1 and returning bucket1
mergeBucketsInPlace(bucket1, bucket2, maxTokens) ==
    LET totalTokens == bucket1.total_tokens + bucket2.total_tokens
        grown == [bucket1 EXCEPT !.files = @ \o bucket2.files,
                                 !.total_tokens = totalTokens]
    IN  IF totalTokens <= maxTokens
        THEN [ret |-> <<grown>>, bucket1 |-> grown, bucket2 |-> bucket2]
        ELSE [ret |-> <<>>, bucket1 |-> bucket1, bucket2 |-> bucket2]

\* mergeBuckets(bucket1, bucket2): the returned value (<<>> stands for null,
\* <<b>> for the bucket b) and the two argument objects as the call leaves
\* them.
mergeBuckets(bucket1, bucket2, maxTokens) ==
    LET totalTokens == bucket1.total_tokens + bucket2.total_tokens
    IN  [ret |-> IF totalTokens <= maxTokens
                 THEN <<[files |-> bucket1.files \o bucket2.files,
                         total_tokens |-> totalTokens,
                         summary |-> OrElse(bucket1.summary, bucket2.summary),
                         mermaid_content |-> OrElse(bucket1.mermaid_content,
                                                    bucket2.mermaid_content)]>>
                 ELSE <<>>,
         bucket1 |-> bucket1,
         bucket2 |-> bucket2]

\* addFileToBucket accepting a file only strictly under the capacity
addFileToBucketStrict(bucket, file, maxTokens) ==
    LET fileTokens == calculateFileTokens(file)
    IN  IF bucket.total_tokens + fileTokens < maxTokens
        THEN [ret |-> TRUE,
              bucket |-> [bucket EXCEPT !.files = Append(@, file),
                                        !.total_tokens = @ + fileTokens]]
        ELSE [ret |-> FALSE, bucket |-> bucket]

\* addFileToBucket(bucket, file): the returned value and the bucket object
\* as the call leaves it
addFileToBucket(bucket, file, maxTokens) ==
    LET fileTokens == calculateFileTokens(file)
    IN  IF bucket.total_tokens + fileTokens <= maxTokens
        THEN [ret |-> TRUE,
              bucket |-> [bucket EXCEPT !.files = Append(@, file),
                                        !.total_tokens = @ + fileTokens]]
        ELSE [ret |-> FALSE, bucket |-> bucket]

\* bucket.files.findIndex(file => file.path === filePath): 0 stands for -1
findIndex(fs, filePath) ==
    LET found == {k \in DOMAIN fs : fs[k].path = filePath}
    IN  IF found = {} THEN 0
        ELSE CHOOSE k \in found : \A j \in found : k <= j

\* removeFileFromBucket splicing out every file of that path and
\* lowering the weight by the first one's
removeFileFromBucketAll(bucket, filePath) ==
    LET fileIndex == findIndex(bucket.files, filePath)
        keep(k) == IF bucket.files[k].path # filePath THEN <<bucket.files[k]>> ELSE <<>>
    IN  IF fileIndex # 0
        THEN [ret |-> TRUE,
              bucket |-> [bucket EXCEPT
                            !.files = Flatten([k \in DOMAIN bucket.files |-> keep(k)]),
                            !.total_tokens = @ - calculateFileTokens(bucket.files[fileIndex])]]
        ELSE [ret |-> FALSE, bucket |-> bucket]

\* removeFileFromBucket(bucket, filePath): the returned value and the bucket
\* object as the call leaves it
removeFileFromBucket(bucket, filePath) ==
    LET fileIndex == findIndex(bucket.files, filePath)
    IN  IF fileIndex # 0
        THEN [ret |-> TRUE,
              bucket |-> [bucket EXCEPT
                            !.files = SubSeq(@, 1, fileIndex - 1)
                                        \o SubSeq(@, fileIndex + 1, Len(@)),
                            !.total_tokens = @ - calculateFileTokens(bucket.files[fileIndex])]]
        ELSE [ret |-> FALSE, bucket |-> bucket]

\* getBucketUtilization(bucket) < 50 and > 100, the percentage
\* (total_tokens / maxTokensPerBucket) * 100 compared without the division:
\* for integers of this size the quotient is never within a rounding error
\* of 0.5 or of 1 without being equal to it.
UnderUtilized(bucket, maxTokens) == bucket.total_tokens * 100 < 50 * maxTokens

OverUtilized(bucket, maxTokens) == bucket.total_tokens * 100 > 100 * maxTokens

\* The loop of optimizeBuckets keeping only the first of two buckets that
\* could not be merged
RECURSIVE mergeUnderutilizedKeepsFirst(_, _, _)
mergeUnderutilizedKeepsFirst(optimized, underutilized, maxTokens) ==
    IF Len(underutilized) <= 1
    THEN optimized \o underutilized
    ELSE LET merged == mergeBuckets(underutilized[1], underutilized[2], maxTokens)
             rest == SubSeq(underutilized, 3, Len(underutilized))
         IN  IF merged.ret # <<>>
             THEN mergeUnderutilizedKeepsFirst(optimized, rest \o merged.ret, maxTokens)
             ELSE mergeUnderutilizedKeepsFirst(optimized \o <<merged.bucket1>>,
                                               rest, maxTokens)

\* optimizeBuckets: the loop while (underutilized.length > 1)
RECURSIVE mergeUnderutilized(_, _, _)
mergeUnderutilized(optimized, underutilized, maxTokens) ==
    IF Len(underutilized) <= 1
    THEN optimized \o underutilized
    ELSE LET merged == mergeBuckets(underutilized[1], underutilized[2], maxTokens)
             rest == SubSeq(underutilized, 3, Len(underutilized))
         IN  IF merged.ret # <<>>
             THEN mergeUnderutilized(optimized, rest \o merged.ret, maxTokens)
             ELSE mergeUnderutilized(optimized \o <<merged.bucket1, merged.bucket2>>,
                                     rest, maxTokens)

optimizeBuckets(buckets, maxTokens) ==
    LET Under(bucket) == UnderUtilized(bucket, maxTokens)
        Over(bucket) == ~UnderUtilized(bucket, maxTokens) /\ OverUtilized(bucket, maxTokens)
        Within(bucket) == ~UnderUtilized(bucket, maxTokens) /\ ~OverUtilized(bucket, maxTokens)
        overutilized == SelectSeq(buckets, Over)
        splitBuckets == Flatten([k \in DOMAIN overutilized |->
                                    splitBucket(overutilized[k], maxTokens)])
    IN  mergeUnderutilized(SelectSeq(buckets, Within) \o splitBuckets,
                           SelectSeq(buckets, Under), maxTokens)

\* getSkippedFiles handing out the planner's own array
\* (return this.skippedFiles)
getSkippedFilesSameList(skipped) == [ret |-> skipped, copy |-> FALSE]

\* getSkippedFiles: [...this.skippedFiles], a new array of the same record
\* objects
getSkippedFiles(skipped) == [ret |-> skipped, copy |-> TRUE]

\* clearSkippedFiles: this.skippedFiles = []
clearSkippedFiles == <<>>

\* A record the caller makes up
ForeignRecord == [path |-> 0, size |-> 0, reason |-> <<"x">>]

\* What a caller does to the array getSkippedFiles returned: returned.push(r),
\* returned.pop(), returned[0].reason = 'x'.  The array is the planner's
\* own unless it is a copy; its records are the planner's records.
modifyReturned(returned, skipped, copy, how) ==
    LET changed == CASE how = "push" -> Append(returned, ForeignRecord)
                     [] how = "pop" -> SubSeq(returned, 1, Len(returned) - 1)
                     [] how = "set" -> [returned EXCEPT ![1].reason = <<"x">>]
    IN  [returned |-> changed,
         skipped |-> IF ~copy THEN changed
                     ELSE IF how = "set" THEN [skipped EXCEPT ![1].reason = <<"x">>]
                     ELSE skipped]

\* optimizeBuckets, lines 226-247: the buckets sorted into the three lists
\* and the over-utilized ones split; the two lists the merging loop works on
optimizeBucketsStart(buckets, maxTokens) ==
    LET Under(bucket) == UnderUtilized(bucket, maxTokens)
        Over(bucket) == ~UnderUtilized(bucket, maxTokens) /\ OverUtilized(bucket, maxTokens)
        Within(bucket) == ~UnderUtilized(bucket, maxTokens) /\ ~OverUtilized(bucket, maxTokens)
        overutilized == SelectSeq(buckets, Over)
        splitBuckets == Flatten([k \in DOMAIN overutilized |->
                                    splitBucket(overutilized[k], maxTokens)])
    IN  [optimized |-> SelectSeq(buckets, Within) \o splitBuckets,
         underutilized |-> SelectSeq(buckets, Under)]

\* The body of the merging loop putting both buckets back in the pool when
\* they cannot be merged
mergeStepPutsBack(optimized, underutilized, maxTokens) ==
    LET merged == mergeBuckets(underutilized[1], underutilized[2], maxTokens)
        rest == SubSeq(underutilized, 3, Len(underutilized))
    IN  IF merged.ret # <<>>
        THEN [optimized |-> optimized, underutilized |-> rest \o merged.ret]
        ELSE [optimized |-> optimized,
              underutilized |-> rest \o <<merged.bucket1, merged.bucket2>>]

\* optimizeBuckets, lines 251-260: the body of while (underutilized.length > 1)
mergeStep(optimized, underutilized, maxTokens) ==
    LET merged == mergeBuckets(underutilized[1], underutilized[2], maxTokens)
        rest == SubSeq(underutilized, 3, Len(underutilized))
    IN  IF merged.ret # <<>>
        THEN [optimized |-> optimized, underutilized |-> rest \o merged.ret]
        ELSE [optimized |-> optimized \o <<merged.bucket1, merged.bucket2>>,
              underutilized |-> rest]

-----------------------------------------------------------------------------
(* Regular expressions, as String.prototype.replace runs them *)

\* A pattern is a sequence of items.  An item is a class of characters
\* taken min to max times, greedily ([t |-> "set"]), the end of a line as
\* $ matches it under the m flag ([t |-> "eol"]), or a negative lookahead
\* on a pattern ([t |-> "notahead"]).
Unbounded == 1000000

Lit(c) == [t |-> "set", chars |-> {c}, neg |-> FALSE, min |-> 1, max |-> 1]

Star(set) == [t |-> "set", chars |-> set, neg |-> FALSE, min |-> 0, max |-> Unbounded]

Plus(set) == [t |-> "set", chars |-> set, neg |-> FALSE, min |-> 1, max |-> Unbounded]

StarNot(set) == [t |-> "set", chars |-> set, neg |-> TRUE, min |-> 0, max |-> Unbounded]

PlusNot(set) == [t |-> "set", chars |-> set, neg |-> TRUE, min |-> 1, max |-> Unbounded]

AtLeast(n, set) == [t |-> "set", chars |-> set, neg |-> FALSE, min |-> n, max |-> Unbounded]

EndOfLine == [t |-> "eol", chars |-> {}, neg |-> FALSE, min |-> 0, max |-> 0]

Lits(text) == [k \in DOMAIN text |-> Lit(text[k])]

\* \w
WordChars ==
    {"a", "b", "c", "d", "e", "f", "g", "h", "i", "j", "k", "l", "m", "n", "o", "p", "q",
     "r", "s", "t", "u", "v", "w", "x", "y", "z", "A", "B", "C", "D", "E", "F", "G", "H",
     "I", "J", "K", "L", "M", "N", "O", "P", "Q", "R", "S", "T", "U", "V", "W", "X", "Y",
     "Z", "0", "1", "2", "3", "4", "5", "6", "7", "8", "9", "_"}

LineTerminators == {"\n", "\r"}

ItemTakes(item, c) == (c \in item.chars) # item.neg

\* How many characters from pos on the item can take, at most limit
RECURSIVE RunLength(_, _, _, _)
RunLength(item, s, pos, limit) ==
    IF limit = 0 \/ pos > Len(s) \/ ~ItemTakes(item, s[pos]) THEN 0
    ELSE 1 + RunLength(item, s, pos + 1, limit - 1)

NoMatch == [ok |-> FALSE, ends |-> <<>>]

\* MatchAt(pat, ahead, k, s, pos): the match of the items k.. of pat at pos
\* that backtracking finds first; ends[j] is the position after item k+j-1.
\* ahead is the pattern that must not match where pat ends (<<>>: none).
RECURSIVE MatchAt(_, _, _, _, _)
RECURSIVE MatchTaking(_, _, _, _, _, _)
MatchAt(pat, ahead, k, s, pos) ==
    IF k > Len(pat)
    THEN IF ahead # <<>> /\ MatchAt(ahead, <<>>, 1, s, pos).ok
         THEN NoMatch
         ELSE [ok |-> TRUE, ends |-> <<>>]
    ELSE IF pat[k].t = "eol"
    THEN IF pos = Len(s) + 1 \/ (pos <= Len(s) /\ s[pos] \in LineTerminators)
         THEN LET r == MatchAt(pat, ahead, k + 1, s, pos)
              IN  IF r.ok THEN [ok |-> TRUE, ends |-> <<pos>> \o r.ends] ELSE NoMatch
         ELSE NoMatch
    ELSE MatchTaking(pat, ahead, k, s, pos, RunLength(pat[k], s, pos, pat[k].max))

\* Item k takes n characters, or fewer when the rest does not match then
MatchTaking(pat, ahead, k, s, pos, n) ==
    IF n < pat[k].min THEN NoMatch
    ELSE LET r == MatchAt(pat, ahead, k + 1, s, pos + n)
         IN  IF r.ok THEN [ok |-> TRUE, ends |-> <<pos + n>> \o r.ends]
             ELSE MatchTaking(pat, ahead, k, s, pos, n - 1)

MatchEnd(m) == m.ends[Len(m.ends)]

\* The matches a global replace finds, from the left, each starting where
\* the one before ended: [start, ends].  FoundAt takes up the search once
\* the pattern has been tried at from, with result r.
RECURSIVE FindAll(_, _, _, _)
RECURSIVE FoundAt(_, _, _, _, _)
FindAll(pat, ahead, s, from) ==
    IF from > Len(s) + 1 THEN <<>>
    ELSE FoundAt(pat, ahead, s, from, MatchAt(pat, ahead, 1, s, from))

FoundAt(pat, ahead, s, from, r) ==
    IF r.ok
    THEN <<[start |-> from, ends |-> r.ends]>>
         \o FindAll(pat, ahead, s, IF MatchEnd(r) = from THEN from + 1 ELSE MatchEnd(r))
    ELSE FindAll(pat, ahead, s, from + 1)

\* The text items a..b of the match took: a capture group, or $&
Group(s, m, a, b) ==
    Slice(s, IF a = 1 THEN m.start ELSE m.ends[a - 1], m.ends[b] - 1)

\* The text left once each of the matches ms has given way to
\* Replacement(s, match): what lies between the matches is kept
Replaced(s, ms, Replacement(_, _)) ==
    Flatten([k \in DOMAIN ms |->
                Slice(s, IF k = 1 THEN 1 ELSE MatchEnd(ms[k - 1]), ms[k].start - 1)
                    \o Replacement(s, ms[k])])
        \o Slice(s, IF ms = <<>> THEN 1 ELSE MatchEnd(ms[Len(ms)]), Len(s))

\* s.replace(/pat(?!ahead)/g, replacement)
ReplaceAll(s, pat, ahead, Replacement(_, _)) ==
    Replaced(s, FindAll(pat, ahead, s, 1), Replacement)

-----------------------------------------------------------------------------
(* MermaidGenerator: the accumulator *)

SummaryDelimiter ==
    <<"\n", "\n", "-", "-", "-", " ", "A", "d", "d", "i", "t", "i", "o", "n",
      "a", "l", " ", "A", "n", "a", "l", "y", "s", "i", "s", " ", "-", "-",
      "-", "\n", "\n">>

FragmentDelimiter ==
    <<"\n", "\n", "-", "-", "-", " ", "F", "R", "A", "G", "M", "E", "N", "T",
      " ", "-", "-", "-", "\n", "\n">>

\* String.prototype.split on a separator text: the pieces between the
\* occurrences of the separator, taken from the left
RECURSIVE SplitOn(_, _, _)
SplitOn(s, sep, cur) ==
    IF s = <<>> THEN <<cur>>
    ELSE IF StartsWith(s, sep)
         THEN <<cur>> \o SplitOn(SubSeq(s, Len(sep) + 1, Len(s)), sep, <<>>)
         ELSE SplitOn(Tail(s), sep, Append(cur, Head(s)))

\* Array.prototype.filter
FilterSeq(s, Test(_)) ==
    Flatten([k \in DOMAIN s |-> IF Test(s[k]) THEN <<s[k]>> ELSE <<>>])

\* mergeSummaries returning the new summary alone when there is one
mergeSummariesKeepsNew(existing, newSummary) ==
    IF Falsy(newSummary) THEN existing ELSE newSummary

mergeSummaries(existing, newSummary) ==
    IF Falsy(existing) THEN newSummary
    ELSE IF Falsy(newSummary) THEN existing
    ELSE existing \o SummaryDelimiter \o newSummary

appendMermaidFragment(existing, fragment) ==
    IF Falsy(fragment) THEN existing
    ELSE IF Falsy(existing) THEN fragment
    ELSE existing \o FragmentDelimiter \o fragment

collectFragments(serialized) ==
    LET NotBlank(part) == Len(Trim(part)) > 0
    IN  IF Falsy(serialized) THEN <<>>
        ELSE FilterSeq(SplitOn(serialized, FragmentDelimiter, <<>>), NotBlank)

\* processBuckets, lines 29-36: the state it starts from
processBucketsStart(buckets, existing) ==
    [current_bucket_index |-> 0,
     total_buckets |-> Len(buckets),
     processed_files |-> 0,
     total_files |-> SumSeq([k \in DOMAIN buckets |-> Len(buckets[k].files)]),
     accumulated_summary |-> <<>>,
     accumulated_mermaid |-> OrElse(existing, <<>>)]

\* processBuckets going on to the next bucket after a failed invocation
\* (a catch block that logs and does not throw)
processBucketsIterationSwallows(st, index, bucket, response) ==
    IF response.ok
    THEN [pc |-> "loop", i |-> index + 1, error |-> <<>>,
          bucket |-> [bucket EXCEPT !.summary = response.summary,
                                    !.mermaid_content = response.mermaid_content],
          state |-> [st EXCEPT
                       !.accumulated_summary = mergeSummaries(@, response.summary),
                       !.accumulated_mermaid = appendMermaidFragment(@, response.mermaid_content),
                       !.processed_files = @ + Len(bucket.files)]]
    ELSE [pc |-> "loop", i |-> index + 1, error |-> <<>>, bucket |-> bucket, state |-> st]

\* processBuckets, lines 50-73: what one iteration does with the answer of
\* the generator.  On success the bucket object gets the results, the state
\* folds them in and the loop goes on; on failure the error is thrown again.
processBucketsIteration(st, index, bucket, response) ==
    IF response.ok
    THEN [pc |-> "loop", i |-> index + 1, error |-> <<>>,
          bucket |-> [bucket EXCEPT !.summary = response.summary,
                                    !.mermaid_content = response.mermaid_content],
          state |-> [st EXCEPT
                       !.accumulated_summary = mergeSummaries(@, response.summary),
                       !.accumulated_mermaid = appendMermaidFragment(@, response.mermaid_content),
                       !.processed_files = @ + Len(bucket.files)]]
    ELSE [pc |-> "thrown", i |-> index, error |-> <<response.error>>,
          bucket |-> bucket, state |-> st]

-----------------------------------------------------------------------------
(* MermaidGenerator: the sanitizer *)

\* [><=#+\-&]
SpecialChars == {">", "<", "=", "#", "+", "-", "&"}

Quote == "\""

\* One character of a label, after the seven replaces of the callback: &
\* is replaced first, so the & of the other entities is not replaced again
EscapeChar(c) ==
    CASE c = "&" -> <<"&", "a", "m", "p", ";">>
      [] c = ">" -> <<"&", "g", "t", ";">>
      [] c = "<" -> <<"&", "l", "t", ";">>
      [] c = "=" -> <<"&", "e", "q", "u", "a", "l", "s", ";">>
      [] c = "#" -> <<"&", "n", "u", "m", ";">>
      [] c = "+" -> <<"&", "p", "l", "u", "s", ";">>
      [] c = "-" -> <<"&", "m", "i", "n", "u", "s", ";">>
      [] OTHER -> <<c>>

EscapeLabel(label) == Flatten([k \in DOMAIN label |-> EscapeChar(label[k])])

Arrow == <<"-", "-", ">">>

\* /-->\|([^|]*)\|/g
LabelledArrow == Lits(<<"-", "-", ">", "|">>) \o <<StarNot({"|"}), Lit("|")>>

\* /--\|([^|]*)\|-->/g
LabelInArrow ==
    Lits(<<"-", "-", "|">>) \o <<StarNot({"|"})>> \o Lits(<<"|", "-", "-", ">">>)

\* /(\w+)\{([^}]*[><=#+\-&]+[^}]*)\}/g and the same in square brackets
SpecialLabel(open, close) ==
    <<Plus(WordChars), Lit(open), StarNot({close}), Plus(SpecialChars),
      StarNot({close}), Lit(close)>>

QuoteSpecialLabel(open, close, s, m) ==
    Group(s, m, 1, 1) \o <<open, Quote>> \o EscapeLabel(Group(s, m, 3, 5))
        \o <<Quote, close>>

\* /--\s*"([^"]*[><=#+\-&]+[^"]*)"\s*-->/g
SpecialConnection ==
    Lits(<<"-", "-">>)
        \o <<Star(WhiteSpace), Lit(Quote), StarNot({Quote}), Plus(SpecialChars),
             StarNot({Quote}), Lit(Quote), Star(WhiteSpace)>>
        \o Lits(Arrow)

QuoteSpecialConnection(s, m) ==
    <<"-", "-", " ", Quote>> \o EscapeLabel(Group(s, m, 5, 7))
        \o <<Quote, " ", "-", "-", ">">>

\* /(\w+)\[([^\[\]]*[^\[\]"]+[^\[\]]*)\]/g
AnyLabel ==
    <<Plus(WordChars), Lit("["), StarNot({"[", "]"}), PlusNot({"[", "]", Quote}),
      StarNot({"[", "]"}), Lit("]")>>

QuoteAnyLabel(s, m) ==
    LET label == Group(s, m, 3, 5)
    IN  IF label[1] # Quote /\ label[Len(label)] # Quote
        THEN Group(s, m, 1, 1) \o <<"[", Quote>> \o label \o <<Quote, "]">>
        ELSE Group(s, m, 1, 6)

\* /\[""([^"]+)""\]/g and the same in braces
DoubledQuotes(open, close) ==
    Lits(<<open, Quote, Quote>>) \o <<PlusNot({Quote})>> \o Lits(<<Quote, Quote, close>>)

SingleQuotes(open, close, s, m) ==
    <<open, Quote>> \o Group(s, m, 4, 4) \o <<Quote, close>>

\* /(\w+)\[([^\]]*)\]\s*--\s*(\w+)(?!\[)/g
OpenConnectionFrom ==
    <<Plus(WordChars), Lit("["), StarNot({"]"}), Lit("]"), Star(WhiteSpace),
      Lit("-"), Lit("-"), Star(WhiteSpace), Plus(WordChars)>>

CloseConnectionFrom(s, m) ==
    Group(s, m, 1, 1) \o <<"[", Quote>> \o Group(s, m, 3, 3) \o <<Quote, "]", " ">>
        \o Arrow \o <<" ">> \o Group(s, m, 9, 9)

\* /(\w+)\s*--\s*(\w+)\[([^\]]*)\](?!\s*-->)/g
OpenConnectionTo ==
    <<Plus(WordChars), Star(WhiteSpace), Lit("-"), Lit("-"), Star(WhiteSpace),
      Plus(WordChars), Lit("["), StarNot({"]"}), Lit("]")>>

CloseConnectionTo(s, m) ==
    Group(s, m, 1, 1) \o <<" ">> \o Arrow \o <<" ">> \o Group(s, m, 6, 6)
        \o <<"[", Quote>> \o Group(s, m, 8, 8) \o <<Quote, "]">>

ToArrow(s, m) == Arrow

ToNothing(s, m) == <<>>

ToBlankLine(s, m) == <<"\n", "\n">>

InBraces(s, m) == QuoteSpecialLabel("{", "}", s, m)

InBrackets(s, m) == QuoteSpecialLabel("[", "]", s, m)

SingleInBrackets(s, m) == SingleQuotes("[", "]", s, m)

SingleInBraces(s, m) == SingleQuotes("{", "}", s, m)

sanitizeMermaidContent(content) ==
    LET r1 == ReplaceAll(content, LabelledArrow, <<>>, ToArrow)
        r2 == ReplaceAll(r1, LabelInArrow, <<>>, ToArrow)
        r3 == ReplaceAll(r2, SpecialLabel("{", "}"), <<>>, InBraces)
        r4 == ReplaceAll(r3, SpecialLabel("[", "]"), <<>>, InBrackets)
        r5 == ReplaceAll(r4, SpecialConnection, <<>>, QuoteSpecialConnection)
        r6 == ReplaceAll(r5, Lits(<<"-", "-", ">", "|">>), <<>>, ToArrow)
        r7 == ReplaceAll(r6, Lits(<<"|", "-", "-", ">">>), <<>>, ToArrow)
        r8 == ReplaceAll(r7, AnyLabel, <<>>, QuoteAnyLabel)
        r9 == ReplaceAll(r8, DoubledQuotes("[", "]"), <<>>, SingleInBrackets)
        r10 == ReplaceAll(r9, DoubledQuotes("{", "}"), <<>>, SingleInBraces)
        r11 == ReplaceAll(r10, OpenConnectionFrom, <<Lit("[")>>, CloseConnectionFrom)
        r12 == ReplaceAll(r11, OpenConnectionTo,
                          <<Star(WhiteSpace)>> \o Lits(Arrow), CloseConnectionTo)
        r13 == ReplaceAll(r12, <<Plus(WhiteSpace), EndOfLine>>, <<>>, ToNothing)
    IN  ReplaceAll(r13, <<AtLeast(3, {"\n"})>>, <<>>, ToBlankLine)

\* String.prototype.toLowerCase, on the letters
UpperCase ==
    <<"A", "B", "C", "D", "E", "F", "G", "H", "I", "J", "K", "L", "M", "N", "O", "P", "Q", "R", "S", "T", "U", "V", "W", "X", "Y", "Z">>

LowerCase ==
    <<"a", "b", "c", "d", "e", "f", "g", "h", "i", "j", "k", "l", "m", "n", "o", "p", "q", "r", "s", "t", "u", "v", "w", "x", "y", "z">>

ToLowerCase(s) ==
    [k \in DOMAIN s |->
        IF \E n \in DOMAIN UpperCase : UpperCase[n] = s[k]
        THEN LowerCase[CHOOSE n \in DOMAIN UpperCase : UpperCase[n] = s[k]]
        ELSE s[k]]

\* String.prototype.includes
Includes(s, part) ==
    \E k \in 1..(Len(s) - Len(part) + 1) : SubSeq(s, k, k + Len(part) - 1) = part

validStarts ==
    <<<<"g", "r", "a", "p", "h">>,
      <<"f", "l", "o", "w", "c", "h", "a", "r", "t">>,
      <<"s", "e", "q", "u", "e", "n", "c", "e", "D", "i", "a", "g", "r", "a", "m">>,
      <<"c", "l", "a", "s", "s", "D", "i", "a", "g", "r", "a", "m">>,
      <<"s", "t", "a", "t", "e", "D", "i", "a", "g", "r", "a", "m">>,
      <<"e", "r", "D", "i", "a", "g", "r", "a", "m">>,
      <<"j", "o", "u", "r", "n", "e", "y">>,
      <<"g", "a", "n", "t", "t">>,
      <<"p", "i", "e">>,
      <<"g", "i", "t", "g", "r", "a", "p", "h">>>>

validateMermaidSyntax(text) ==
    IF Trim(text) = <<>>
    THEN [valid |-> FALSE, errors |-> <<"Empty diagram content">>]
    ELSE LET hasValidStart ==
                 \E k \in DOMAIN validStarts :
                     Includes(ToLowerCase(text), ToLowerCase(validStarts[k]))
             errors ==
                 (IF ~hasValidStart
                  THEN <<"No valid Mermaid diagram type found">> ELSE <<>>)
                 \o (IF CountIn(text, {"["}) # CountIn(text, {"]"})
                     THEN <<"Unbalanced brackets in diagram">> ELSE <<>>)
                 \o (IF CountIn(text, {"("}) # CountIn(text, {")"})
                     THEN <<"Unbalanced parentheses in diagram">> ELSE <<>>)
         IN  [valid |-> errors = <<>>, errors |-> errors]

\* The comment buildFinalMermaidContent puts after the diagram: the summary
\* is a text, every other piece is one element of the sequence
MetadataComment(st, skipped) ==
    <<"\n\n<!--\n", "Generated Mermaid Diagram\n", "========================\n\n",
      "Summary:\n">> \o st.accumulated_summary
        \o <<"\n\n", "Processing Statistics:\n",
             "- Total files processed: ", ToString(st.processed_files), "\n",
             "- Total buckets: ", ToString(st.total_buckets), "\n",
             "- Generated on: ", "<now>", "\n">>
        \o (IF skipped # <<>>
            THEN <<"\nSkipped Files (", ToString(Len(skipped)), "):\n">>
                 \o Flatten([k \in DOMAIN skipped |->
                         <<"- ", skipped[k].path, " (", ToString(skipped[k].size),
                           " bytes): ">> \o skipped[k].reason \o <<"\n">>])
            ELSE <<>>)
        \o <<"\n-->">>

\* buildFinalMermaidContent from the sanitized diagram on, lines 180-210
FinalContent(st, skipped, include, sanitizedMermaid) ==
    [content |-> sanitizedMermaid
                 \o (IF include /\ st.accumulated_summary # <<>>
                     THEN MetadataComment(st, skipped) ELSE <<>>),
     warnings |-> validateMermaidSyntax(sanitizedMermaid).errors]

\* buildFinalMermaidContent once mergeOrRepairMermaid has answered merged
buildFinalMermaidContent(st, skipped, include, merged) ==
    FinalContent(st, skipped, include, sanitizeMermaidContent(merged))

\* generateFinalMermaidFile refusing to write a diagram that is not valid
generateFinalMermaidFileStrict(st, skipped, include, answer, writeOk, oldFile) ==
    IF answer = <<>>
    THEN [threw |-> TRUE, ret |-> <<>>, outputFile |-> oldFile, warnings |-> <<>>]
    ELSE LET built == buildFinalMermaidContent(st, skipped, include, answer[1])
         IN  IF writeOk /\ built.warnings = <<>>
             THEN [threw |-> FALSE, ret |-> <<built.content>>,
                   outputFile |-> <<built.content>>, warnings |-> built.warnings]
             ELSE [threw |-> TRUE, ret |-> <<>>, outputFile |-> oldFile,
                   warnings |-> built.warnings]

\* generateFinalMermaidFile(state, skippedFiles): answer is what
\* mergeOrRepairMermaid gives, <<>> when it fails and <<merged>> otherwise;
\* the call throws when the generator or the write fails.
generateFinalMermaidFile(st, skipped, include, answer, writeOk, oldFile) ==
    IF answer = <<>>
    THEN [threw |-> TRUE, ret |-> <<>>, outputFile |-> oldFile, warnings |-> <<>>]
    ELSE LET built == buildFinalMermaidContent(st, skipped, include, answer[1])
         IN  IF writeOk
             THEN [threw |-> FALSE, ret |-> <<built.content>>,
                   outputFile |-> <<built.content>>, warnings |-> built.warnings]
             ELSE [threw |-> TRUE, ret |-> <<>>, outputFile |-> oldFile,
                   warnings |-> built.warnings]

-----------------------------------------------------------------------------
(* StateManager *)

\* saveState(state): this.state = state, then the write, whose failure is
\* caught and logged.  The new [state, stateFile].
saveState(st, oldFile, writeOk) ==
    [state |-> <<st>>, stateFile |-> IF writeOk THEN <<st>> ELSE oldFile]

\* loadState(): the returned value, <<>> for null, and this.state after the
\* call; a file that is missing or cannot be read leaves this.state alone.
loadState(file, held, readOk) ==
    IF file # <<>> /\ readOk
    THEN [ret |-> file, state |-> file]
    ELSE [ret |-> <<>>, state |-> held]

\* What createCheckpoint keeps of a file: the content is left out
CheckpointFileData(file) ==
    [path |-> file.path, size |-> file.size, extension |-> file.extension,
     estimated_tokens |-> file.estimated_tokens]

CheckpointBucketData(bucket) ==
    [files |-> [k \in DOMAIN bucket.files |-> CheckpointFileData(bucket.files[k])],
     total_tokens |-> bucket.total_tokens,
     summary |-> bucket.summary,
     mermaid_content |-> bucket.mermaid_content]

\* createCheckpoint(buckets): throws when no state is held or when the write
\* fails; the new [threw, checkpointFile].
createCheckpoint(held, buckets, oldFile, writeOk) ==
    IF held = <<>> \/ ~writeOk
    THEN [threw |-> TRUE, checkpointFile |-> oldFile]
    ELSE [threw |-> FALSE,
          checkpointFile |->
              <<[state |-> held[1],
                 buckets |-> [k \in DOMAIN buckets |-> CheckpointBucketData(buckets[k])]]>>]

\* loadCheckpoint, lines 447-460: the files of one saved bucket that can
\* still be read, with the content read from the disk
RestoredFiles(fileData, unreadable, disk) ==
    LET Readable(fd) == fd.path \notin unreadable
        kept == FilterSeq(fileData, Readable)
    IN  [k \in DOMAIN kept |->
            [path |-> kept[k].path, content |-> disk[kept[k].path], size |-> kept[k].size,
             extension |-> kept[k].extension, estimated_tokens |-> kept[k].estimated_tokens]]

\* loadCheckpoint giving up when a file of a bucket cannot be read
loadCheckpointAllOrNothing(file, readOk, unreadable, disk) ==
    IF file = <<>> \/ ~readOk THEN <<>>
    ELSE IF \E k \in DOMAIN file[1].buckets :
               \E n \in DOMAIN file[1].buckets[k].files :
                   file[1].buckets[k].files[n].path \in unreadable
    THEN <<>>
    ELSE <<[state |-> file[1].state,
            buckets |-> [k \in DOMAIN file[1].buckets |->
                           [files |-> RestoredFiles(file[1].buckets[k].files, unreadable, disk),
                            total_tokens |-> file[1].buckets[k].total_tokens,
                            summary |-> file[1].buckets[k].summary,
                            mermaid_content |-> file[1].buckets[k].mermaid_content]]]>>

\* loadCheckpoint(): <<>> stands for null, <<[state, buckets]>> for a result
loadCheckpoint(file, readOk, unreadable, disk) ==
    IF file = <<>> \/ ~readOk THEN <<>>
    ELSE <<[state |-> file[1].state,
            buckets |-> [k \in DOMAIN file[1].buckets |->
                           [files |-> RestoredFiles(file[1].buckets[k].files, unreadable, disk),
                            total_tokens |-> file[1].buckets[k].total_tokens,
                            summary |-> file[1].buckets[k].summary,
                            mermaid_content |-> file[1].buckets[k].mermaid_content]]]>>

\* initializeState(totalFiles, totalBuckets): the state it holds and returns
initializeState(totalFiles, totalBuckets) ==
    [current_bucket_index |-> 0, total_buckets |-> totalBuckets, processed_files |-> 0,
     total_files |-> totalFiles, accumulated_summary |-> <<>>, accumulated_mermaid |-> <<>>]

ComponentsDelimiter ==
    <<"\n", "\n", "-", "-", "-", " ", "A", "d", "d", "i", "t", "i", "o", "n",
      "a", "l", " ", "C", "o", "m", "p", "o", "n", "e", "n", "t", "s", " ", "-",
      "-", "-", "\n", "\n">>

\* StateManager.mergeSummaries
stateMergeSummaries(existing, newSummary) ==
    IF Falsy(existing) THEN newSummary
    ELSE IF Falsy(newSummary) THEN existing
    ELSE existing \o SummaryDelimiter \o newSummary

\* StateManager.mergeMermaidContent
mergeMermaidContent(existing, newContent) ==
    IF Falsy(existing) THEN newContent
    ELSE IF Falsy(newContent) THEN existing
    ELSE existing \o ComponentsDelimiter \o newContent

NotInitialized == "State not initialized"

\* updateState making the state it lacks
updateStateInitializes(held, bucketIndex, filesProcessed, summary, mermaidContent) ==
    LET st == IF held = <<>> THEN initializeState(0, 0) ELSE held[1]
    IN  [error |-> <<>>,
         state |-> <<[st EXCEPT
                        !.current_bucket_index = bucketIndex,
                        !.processed_files = @ + filesProcessed,
                        !.accumulated_summary = stateMergeSummaries(@, summary),
                        !.accumulated_mermaid = mergeMermaidContent(@, mermaidContent)]>>]

\* updateState(bucketIndex, filesProcessed, summary, mermaidContent): the
\* error it throws, if any, and this.state after the call, which is what it
\* returns
updateState(held, bucketIndex, filesProcessed, summary, mermaidContent) ==
    IF held = <<>>
    THEN [error |-> <<NotInitialized>>, state |-> held]
    ELSE [error |-> <<>>,
          state |-> <<[held[1] EXCEPT
                         !.current_bucket_index = bucketIndex,
                         !.processed_files = @ + filesProcessed,
                         !.accumulated_summary = stateMergeSummaries(@, summary),
                         !.accumulated_mermaid = mergeMermaidContent(@, mermaidContent)]>>]

\* resetState(): this.state = null, and the state file removed unless the
\* removal fails, which is caught and logged.  The new [state, stateFile].
resetState(oldFile, removeOk) ==
    [state |-> <<>>, stateFile |-> IF removeOk THEN <<>> ELSE oldFile]

\* getCurrentState()
getCurrentState(held) == held

-----------------------------------------------------------------------------
(* The planner and its caller *)

\* The texts the discovered files hold
EmptyContent == <<>>

CodeContent == <<"f", "o", "o", "(", "b", "a", "r", ")", ";">>

\* The FileInfo values a discovered file may have, but for its path: a file
\* whose estimate is 0 is weighed by its content.
FileChoices ==
    {[content |-> EmptyContent, estimated_tokens |-> 0]}
    \cup {[content |-> CodeContent, estimated_tokens |-> e] :
             e \in {300, 600, 100000, 100001, 500000}}

FileInfo(path, choice) ==
    [path |-> path,
     content |-> choice.content,
     size |-> Len(choice.content),
     extension |-> ".js",
     estimated_tokens |-> choice.estimated_tokens]

\* The lists of discovered files: distinct paths, at most MaxFiles of them
FileLists ==
    UNION {{[k \in 1..n |-> FileInfo(k, c[k])] : c \in [1..n -> FileChoices]} : n \in 0..MaxFiles}

\* new BucketManager(maxTokensPerBucket, tokenThreshold): the capacity and
\* threshold of the tests, a lower threshold, and the capacity the command
\* line defaults to, whose threshold lies above the hard limit
Configs == {<<1000, 9>>, <<1000, 5>>, <<400000, 9>>}

\* A ProcessingState before any run has made one
NoState ==
    [current_bucket_index |-> 0, total_buckets |-> 0, processed_files |-> 0,
     total_files |-> 0, accumulated_summary |-> <<>>, accumulated_mermaid |-> <<>>]

RunIdle ==
    /\ resp = <<>>
    /\ existingMermaid = <<>>
    /\ buckets0 = <<>>
    /\ phase = "none"
    /\ pc = "none"
    /\ i = 0
    /\ state = NoState
    /\ pbBuckets = <<>>
    /\ pbOffset = 0
    /\ calls = <<>>
    /\ result = <<>>
    /\ error = <<>>
    /\ fullResult = <<>>
    /\ smState = <<>>
    /\ stateFile = <<>>
    /\ checkpointFile = <<>>
    /\ checkpointed = <<>>
    /\ includeSummary = FALSE
    /\ mergeCalls = <<>>
    /\ warnings = <<>>
    /\ outputFile = <<>>

SanIdle ==
    /\ sanText = <<>>
    /\ passes = 0

NoOp ==
    [op |-> "none", files |-> <<>>, skippedBefore |-> <<>>,
     args |-> <<>>, after |-> <<>>, ret |-> <<>>, ok |-> FALSE]

PlannerInit ==
    /\ \E c \in Configs : maxTokensPerBucket = c[1] /\ tokenThreshold = c[2]
    /\ skippedFiles = <<>>
    /\ files \in FileLists
    /\ pool = <<>>
    /\ lastOp = NoOp

\* const buckets = bucketManager.createBuckets(files)
CreateBuckets ==
    /\ lastOp.op # "createBuckets"
    /\ Len(skippedFiles) < MaxSkipped
    /\ LET r == createBuckets(files, maxTokensPerBucket, tokenThreshold)
       IN  /\ skippedFiles' = skippedFiles \o r.skipped
           /\ pool' = r.buckets
           /\ lastOp' = [NoOp EXCEPT !.op = "createBuckets", !.files = files,
                                     !.skippedBefore = skippedFiles,
                                     !.ret = r.buckets, !.ok = TRUE]
    /\ UNCHANGED <<maxTokensPerBucket, tokenThreshold, files>>
    /\ UNCHANGED <<runVars, sanVars>>

\* A caller builds a bucket object from its files, as the tests do:
\* { files: mockFiles, total_tokens: 1400 }
MakeBucket ==
    /\ lastOp.op # "makeBucket"
    /\ files # <<>>
    /\ LET bucket == createBucket(files, calculateTotalTokens(files))
       IN  /\ pool' = <<bucket>>
           /\ lastOp' = [NoOp EXCEPT !.op = "makeBucket", !.ret = <<bucket>>, !.ok = TRUE]
    /\ UNCHANGED <<maxTokensPerBucket, tokenThreshold, skippedFiles, files>>
    /\ UNCHANGED <<runVars, sanVars>>

\* Every element of the sequence but those at positions m and n
Without(s, m, n) ==
    LET keep(k) == IF k # m /\ k # n THEN <<s[k]>> ELSE <<>>
    IN  Flatten([k \in DOMAIN s |-> keep(k)])

\* const merged = bucketManager.mergeBuckets(pool[m], pool[n]); the caller
\* keeps the merged bucket in place of the two when there is one.
MergeBuckets ==
    \E m \in DOMAIN pool, n \in DOMAIN pool :
        /\ m # n
        /\ LET r == mergeBuckets(pool[m], pool[n], maxTokensPerBucket)
               held == [pool EXCEPT ![m] = r.bucket1, ![n] = r.bucket2]
           IN  /\ pool' = IF r.ret # <<>> THEN Without(held, m, n) \o r.ret ELSE held
               /\ lastOp' = [NoOp EXCEPT !.op = "mergeBuckets",
                                         !.args = <<pool[m], pool[n]>>,
                                         !.after = <<r.bucket1, r.bucket2>>,
                                         !.ret = r.ret, !.ok = r.ret # <<>>]
        /\ UNCHANGED <<maxTokensPerBucket, tokenThreshold, skippedFiles, files>>
        /\ UNCHANGED <<runVars, sanVars>>
    /\ UNCHANGED <<runVars, sanVars>>

\* const parts = bucketManager.splitBucket(pool[m]); the caller keeps the
\* parts in place of the bucket.
SplitBucket ==
    \E m \in DOMAIN pool :
        /\ LET r == splitBucket(pool[m], maxTokensPerBucket)
           IN  /\ pool' = SubSeq(pool, 1, m - 1) \o r \o SubSeq(pool, m + 1, Len(pool))
               /\ lastOp' = [NoOp EXCEPT !.op = "splitBucket",
                                         !.args = <<pool[m]>>,
                                         !.after = <<pool[m]>>,
                                         !.ret = r, !.ok = TRUE]
        /\ UNCHANGED <<maxTokensPerBucket, tokenThreshold, skippedFiles, files>>
        /\ UNCHANGED <<runVars, sanVars>>
    /\ UNCHANGED <<runVars, sanVars>>

PlannerNext ==
    \/ CreateBuckets
    \/ MakeBucket
    \/ MergeBuckets
    \/ SplitBucket

\* The planner on its own: no run is under way
Init == PlannerInit /\ RunIdle /\ SanIdle

Spec == Init /\ [][PlannerNext]_vars

-----------------------------------------------------------------------------
(* The planner on the files of the tests, given in any order, and on files  *)
(* that carry no estimate worth using                                       *)

\* mockFiles of BucketManager.test.ts: file1.js to file4.js
MockTokens == <<200, 300, 400, 500>>

MockFile(path) == FileInfo(path, [content |-> CodeContent, estimated_tokens |-> MockTokens[path]])

MockOrders ==
    {order \in [DOMAIN MockTokens -> DOMAIN MockTokens] :
        \A m, n \in DOMAIN MockTokens : m # n => order[m] # order[n]}

MockFileLists == {[k \in DOMAIN MockTokens |-> MockFile(order[k])] : order \in MockOrders}

\* Files with an estimate of 0, weighed by their content, and files with a
\* small estimate
UnestimatedChoices ==
    {[content |-> CodeContent, estimated_tokens |-> e] : e \in {0, 2, 7}}

UnestimatedFileLists ==
    UNION {{[k \in 1..n |-> FileInfo(k, c[k])] : c \in [1..n -> UnestimatedChoices]}
              : n \in 1..MaxFiles}

FixtureInit ==
    /\ maxTokensPerBucket = 1000
    /\ tokenThreshold = 9
    /\ skippedFiles = <<>>
    /\ files \in MockFileLists \cup UnestimatedFileLists
    /\ pool = <<>>
    /\ lastOp = NoOp

FixtureSpecInit == FixtureInit /\ RunIdle /\ SanIdle

FixtureSpec == FixtureSpecInit /\ [][PlannerNext]_vars

-----------------------------------------------------------------------------
(* The planner's buckets edited by a caller: files added and removed, the   *)
(* list optimized                                                           *)

\* Files of 40%, 60% and 200% of the capacity of the tests
EditChoices ==
    {[content |-> CodeContent, estimated_tokens |-> e] : e \in {400, 600, 2000}}

EditFileLists ==
    UNION {{[k \in 1..n |-> FileInfo(k, c[k])] : c \in [1..n -> EditChoices]}
              : n \in 0..MaxEditFiles}

EditConfigs == {<<1000, 9>>, <<1000, 5>>}

\* The paths a caller asks to remove: those of the files, and one of no file
EditPaths == 1..(MaxEditFiles + 1)

EditInit ==
    /\ \E c \in EditConfigs : maxTokensPerBucket = c[1] /\ tokenThreshold = c[2]
    /\ skippedFiles = <<>>
    /\ files \in EditFileLists
    /\ pool = <<>>
    /\ lastOp = NoOp

\* const added = bucketManager.addFileToBucket(pool[1], files[k]): the
\* caller edits the first of its buckets
AddFileToBucket ==
    \E m \in {1} \cap DOMAIN pool, k \in DOMAIN files :
        /\ LET r == addFileToBucket(pool[m], files[k], maxTokensPerBucket)
           IN  /\ pool' = [pool EXCEPT ![m] = r.bucket]
               /\ lastOp' = [NoOp EXCEPT !.op = "addFileToBucket",
                                         !.files = <<files[k]>>,
                                         !.args = <<pool[m]>>,
                                         !.after = <<r.bucket>>,
                                         !.ok = r.ret]
        /\ UNCHANGED <<maxTokensPerBucket, tokenThreshold, skippedFiles, files>>
        /\ UNCHANGED <<runVars, sanVars>>

\* const removed = bucketManager.removeFileFromBucket(pool[1], filePath)
RemoveFileFromBucket ==
    \E m \in {1} \cap DOMAIN pool, filePath \in EditPaths :
        /\ LET r == removeFileFromBucket(pool[m], filePath)
           IN  /\ pool' = [pool EXCEPT ![m] = r.bucket]
               /\ lastOp' = [NoOp EXCEPT !.op = "removeFileFromBucket",
                                         !.args = <<pool[m], filePath>>,
                                         !.after = <<r.bucket>>,
                                         !.ok = r.ret]
        /\ UNCHANGED <<maxTokensPerBucket, tokenThreshold, skippedFiles, files>>
        /\ UNCHANGED <<runVars, sanVars>>

\* pool = bucketManager.optimizeBuckets(pool), of the list createBuckets
\* has just returned
OptimizeBuckets ==
    /\ lastOp.op = "createBuckets"
    /\ LET r == optimizeBuckets(pool, maxTokensPerBucket)
       IN  /\ pool' = r
           /\ lastOp' = [NoOp EXCEPT !.op = "optimizeBuckets",
                                     !.args = pool, !.ret = r, !.ok = TRUE]
    /\ UNCHANGED <<maxTokensPerBucket, tokenThreshold, skippedFiles, files>>
    /\ UNCHANGED <<runVars, sanVars>>

EditNext ==
    \/ CreateBuckets
    \/ AddFileToBucket
    \/ RemoveFileFromBucket
    \/ OptimizeBuckets

EditSpecInit == EditInit /\ RunIdle /\ SanIdle

EditSpec == EditSpecInit /\ [][EditNext]_vars

-----------------------------------------------------------------------------
(* The skip list of one planner over several createBuckets calls, read,     *)
(* modified by the caller and cleared                                       *)

\* A file within the capacity, and two above the hard limit
SkipChoices ==
    {[content |-> CodeContent, estimated_tokens |-> e] : e \in {600, 100001, 500000}}

SkipFileLists ==
    UNION {{[k \in 1..n |-> FileInfo(k, c[k])] : c \in [1..n -> SkipChoices]}
              : n \in 0..MaxSkipFiles}

SkipInit ==
    /\ maxTokensPerBucket = 1000
    /\ tokenThreshold = 9
    /\ skippedFiles = <<>>
    /\ files \in SkipFileLists
    /\ pool = <<>>
    /\ lastOp = NoOp

\* The caller comes to hold another list of files
Discover ==
    /\ lastOp.op = "createBuckets"
    /\ files' \in SkipFileLists \ {files}
    /\ lastOp' = [NoOp EXCEPT !.op = "discover", !.skippedBefore = skippedFiles]
    /\ UNCHANGED <<maxTokensPerBucket, tokenThreshold, skippedFiles, pool>>
    /\ UNCHANGED <<runVars, sanVars>>

\* const returned = bucketManager.getSkippedFiles(); lastOp.ok tells that
\* the array is not the planner's own
GetSkippedFiles ==
    /\ lastOp.op \in {"createBuckets", "clearSkippedFiles", "modifyReturned"}
    /\ LET r == getSkippedFiles(skippedFiles)
       IN  lastOp' = [NoOp EXCEPT !.op = "getSkippedFiles", !.skippedBefore = skippedFiles,
                                 !.ret = r.ret, !.ok = r.copy]
    /\ UNCHANGED <<maxTokensPerBucket, tokenThreshold, skippedFiles, files, pool>>
    /\ UNCHANGED <<runVars, sanVars>>

\* The caller changes the array it got from getSkippedFiles
ModifyReturned ==
    /\ lastOp.op = "getSkippedFiles"
    /\ \E how \in {"push", "pop", "set"} :
          /\ how \in {"pop", "set"} => lastOp.ret # <<>>
          /\ LET r == modifyReturned(lastOp.ret, skippedFiles, lastOp.ok, how)
             IN  /\ skippedFiles' = r.skipped
                 /\ lastOp' = [NoOp EXCEPT !.op = "modifyReturned",
                                           !.skippedBefore = skippedFiles,
                                           !.args = <<how>>, !.ret = r.returned]
    /\ UNCHANGED <<maxTokensPerBucket, tokenThreshold, files, pool>>
    /\ UNCHANGED <<runVars, sanVars>>

\* bucketManager.clearSkippedFiles()
ClearSkippedFiles ==
    /\ lastOp.op \in {"createBuckets", "getSkippedFiles", "modifyReturned"}
    /\ skippedFiles' = clearSkippedFiles
    /\ lastOp' = [NoOp EXCEPT !.op = "clearSkippedFiles", !.skippedBefore = skippedFiles]
    /\ UNCHANGED <<maxTokensPerBucket, tokenThreshold, files, pool>>
    /\ UNCHANGED <<runVars, sanVars>>

SkipNext ==
    \/ CreateBuckets
    \/ Discover
    \/ GetSkippedFiles
    \/ ModifyReturned
    \/ ClearSkippedFiles

SkipSpecInit == SkipInit /\ RunIdle /\ SanIdle

SkipSpec == SkipSpecInit /\ [][SkipNext]_vars

-----------------------------------------------------------------------------
(* optimizeBuckets taken one iteration of its merging loop at a time        *)

\* While optimizeBuckets runs, lastOp.args is the list it was given and
\* lastOp.after is the pair of its locals optimized and underutilized
Merging == "optimizeBuckets: merging"

\* optimizeBuckets(buckets) up to the merging loop
OptimizeStart ==
    /\ lastOp.op = "createBuckets"
    /\ LET r == optimizeBucketsStart(pool, maxTokensPerBucket)
       IN  lastOp' = [NoOp EXCEPT !.op = Merging, !.args = pool,
                                 !.after = <<r.optimized, r.underutilized>>]
    /\ UNCHANGED <<maxTokensPerBucket, tokenThreshold, skippedFiles, files, pool>>
    /\ UNCHANGED <<runVars, sanVars>>

\* One iteration of while (underutilized.length > 1)
OptimizeMerge ==
    /\ lastOp.op = Merging
    /\ Len(lastOp.after[2]) > 1
    /\ LET r == mergeStep(lastOp.after[1], lastOp.after[2], maxTokensPerBucket)
       IN  lastOp' = [lastOp EXCEPT !.after = <<r.optimized, r.underutilized>>]
    /\ UNCHANGED <<maxTokensPerBucket, tokenThreshold, skippedFiles, files, pool>>
    /\ UNCHANGED <<runVars, sanVars>>

\* optimized.push(...underutilized); return optimized
OptimizeReturn ==
    /\ lastOp.op = Merging
    /\ ~(Len(lastOp.after[2]) > 1)
    /\ LET r == lastOp.after[1] \o lastOp.after[2]
       IN  /\ pool' = r
           /\ lastOp' = [NoOp EXCEPT !.op = "optimizeBuckets", !.args = lastOp.args,
                                     !.ret = r, !.ok = TRUE]
    /\ UNCHANGED <<maxTokensPerBucket, tokenThreshold, skippedFiles, files>>
    /\ UNCHANGED <<runVars, sanVars>>

\* optimizeBuckets is synchronous: the caller calls createBuckets before it
\* or after it has returned
LoopCreateBuckets ==
    /\ lastOp.op # Merging
    /\ CreateBuckets

LoopNext ==
    \/ LoopCreateBuckets
    \/ OptimizeStart
    \/ OptimizeMerge
    \/ OptimizeReturn

LoopSpecInit == EditInit /\ RunIdle /\ SanIdle

\* A call of optimizeBuckets that has started goes on: nothing in it waits
LoopSpec ==
    /\ LoopSpecInit
    /\ [][LoopNext]_vars
    /\ WF_vars(OptimizeMerge)
    /\ WF_vars(OptimizeReturn)

-----------------------------------------------------------------------------
(* The planner with heavy files, under a capacity below and a capacity      *)
(* above the hard limit: every operation on the buckets createBuckets made  *)

\* Files of 60% of the hard limit, and of the hard limit
HeavyChoices ==
    {[content |-> CodeContent, estimated_tokens |-> e] : e \in {60000, 100000}}

HeavyFileLists ==
    UNION {{[k \in 1..n |-> FileInfo(k, c[k])] : c \in [1..n -> HeavyChoices]}
              : n \in 0..MaxHeavyFiles}

\* The capacity of the tests, and --token-limit 400000
HeavyConfigs == {<<1000, 9>>, <<400000, 9>>}

HeavyInit ==
    /\ \E c \in HeavyConfigs : maxTokensPerBucket = c[1] /\ tokenThreshold = c[2]
    /\ skippedFiles = <<>>
    /\ files \in HeavyFileLists
    /\ pool = <<>>
    /\ lastOp = NoOp

HeavyNext ==
    \/ CreateBuckets
    \/ AddFileToBucket
    \/ RemoveFileFromBucket
    \/ MergeBuckets
    \/ SplitBucket
    \/ OptimizeBuckets

HeavySpecInit == HeavyInit /\ RunIdle /\ SanIdle

HeavySpec == HeavySpecInit /\ [][HeavyNext]_vars

-----------------------------------------------------------------------------
(* The run: runMermaidGenerator, and a caller that stops and resumes *)

PlannerIdle ==
    /\ maxTokensPerBucket = 0
    /\ tokenThreshold = 0
    /\ skippedFiles = <<>>
    /\ files = <<>>
    /\ pool = <<>>
    /\ lastOp = NoOp

\* The k-th bucket handed to the run: one file, or two for an even k
RunBucket(k) ==
    LET file(path) == FileInfo(path, [content |-> CodeContent, estimated_tokens |-> 300])
        fs == IF k % 2 = 1 THEN <<file(2 * k - 1)>> ELSE <<file(2 * k - 1), file(2 * k)>>
    IN  createBucket(fs, calculateTotalTokens(fs))

RunBucketLists == {[k \in 1..n |-> RunBucket(k)] : n \in 0..MaxBuckets}

\* What is on the disk under each path when a checkpoint is loaded
Disk == [path \in 1..(2 * (MaxBuckets + 1)) |-> CodeContent]

\* The answers of llmClient.processBucket: an LLMResponse, or a failure
Summaries == {<<>>, <<"s">>}

Fragments == {<<>>, <<"A">>}

ResponseChoices ==
    {[ok |-> TRUE, summary |-> sm, mermaid_content |-> fr, error |-> 0] :
        sm \in Summaries, fr \in Fragments}
    \cup {[ok |-> FALSE, summary |-> <<>>, mermaid_content |-> <<>>, error |-> 0]}

RunInit ==
    /\ buckets0 \in RunBucketLists
    /\ \E c \in [1..Len(buckets0) -> ResponseChoices] :
          resp = [k \in 1..Len(buckets0) |->
                     IF c[k].ok THEN c[k] ELSE [c[k] EXCEPT !.error = k]]
    /\ existingMermaid \in {<<>>, <<"X">>}
    /\ phase = "cli"
    /\ pc = "start"
    /\ i = 0
    /\ state = NoState
    /\ pbBuckets = <<>>
    /\ pbOffset = 0
    /\ calls = <<>>
    /\ result = <<>>
    /\ error = <<>>
    /\ fullResult = <<>>
    /\ smState = <<>>
    /\ stateFile = <<>>
    /\ checkpointFile = <<>>
    /\ checkpointed = <<>>
    /\ includeSummary \in BOOLEAN
    /\ mergeCalls = <<>>
    /\ warnings = <<>>
    /\ outputFile = <<>>

\* cli.ts line 172: mermaidGenerator.processBuckets(buckets, existingMermaid)
CliProcessBuckets ==
    /\ phase = "cli"
    /\ pc = "start"
    /\ pbBuckets' = buckets0
    /\ pbOffset' = 0
    /\ state' = processBucketsStart(buckets0, existingMermaid)
    /\ i' = 0
    /\ pc' = "loop"
    /\ UNCHANGED <<resp, existingMermaid, buckets0, phase, calls, result, error,
                   fullResult, smState, stateFile, checkpointFile, checkpointed>>
    /\ UNCHANGED <<plannerVars, finalVars, sanVars>>

\* processBuckets, lines 38-49: the loop takes bucket i and awaits the
\* generator
Invoke ==
    /\ pc = "loop"
    /\ i < Len(pbBuckets)
    /\ state' = [state EXCEPT !.current_bucket_index = i]
    /\ calls' = Append(calls, [bucket |-> pbOffset + i + 1,
                               files |-> pbBuckets[i + 1].files,
                               summary |-> state.accumulated_summary,
                               mermaid |-> state.accumulated_mermaid])
    /\ pc' = "awaiting"
    /\ UNCHANGED <<resp, existingMermaid, buckets0, phase, i, pbBuckets, pbOffset,
                   result, error, fullResult, smState, stateFile, checkpointFile, checkpointed>>
    /\ UNCHANGED <<plannerVars, finalVars, sanVars>>

\* processBuckets, lines 50-73: the generator has answered
Respond ==
    /\ pc = "awaiting"
    /\ LET r == processBucketsIteration(state, i, pbBuckets[i + 1], resp[pbOffset + i + 1])
       IN  /\ pc' = r.pc
           /\ i' = r.i
           /\ error' = r.error
           /\ state' = r.state
           /\ pbBuckets' = [pbBuckets EXCEPT ![i + 1] = r.bucket]
    /\ UNCHANGED <<resp, existingMermaid, buckets0, phase, pbOffset, calls, result,
                   fullResult, smState, stateFile, checkpointFile, checkpointed>>
    /\ UNCHANGED <<plannerVars, finalVars, sanVars>>

\* processBuckets, line 76: return state
Return ==
    /\ pc = "loop"
    /\ i = Len(pbBuckets)
    /\ result' = <<state>>
    /\ pc' = "returned"
    /\ UNCHANGED <<resp, existingMermaid, buckets0, phase, i, state, pbBuckets, pbOffset,
                   calls, error, fullResult, smState, stateFile, checkpointFile, checkpointed>>
    /\ UNCHANGED <<plannerVars, finalVars, sanVars>>

\* What llmClient.mergeOrRepairMermaid answers
MergedChoices == {<<>>, <<"g", "r", "a", "p", "h", "\n", "A", "[", "-", "]", " ", "\n">>}

\* cli.ts line 176: mermaidGenerator.generateFinalMermaidFile(state,
\* skippedFiles); the generator or the write may fail, and the run with it
CliGenerateFinal ==
    /\ phase = "cli"
    /\ pc = "returned"
    /\ mergeCalls' = Append(mergeCalls, collectFragments(result[1].accumulated_mermaid))
    /\ \/ \E merged \in MergedChoices, writeOk \in BOOLEAN :
             \E built \in {buildFinalMermaidContent(result[1], skippedFiles,
                                                    includeSummary, merged)} :
                 /\ warnings' = built.warnings
                 /\ IF writeOk
                    THEN outputFile' = <<built.content>> /\ pc' = "generated"
                                                         /\ phase' = phase
                    ELSE outputFile' = outputFile /\ pc' = pc /\ phase' = "cli-failed"
       \/ /\ phase' = "cli-failed"
          /\ UNCHANGED <<warnings, outputFile, pc>>
    /\ UNCHANGED <<resp, existingMermaid, buckets0, i, state, pbBuckets, pbOffset,
                   calls, result, error, fullResult, smState, stateFile, checkpointFile, checkpointed,
                   includeSummary>>
    /\ UNCHANGED <<plannerVars, sanVars>>

\* cli.ts line 179: stateManager.saveState(state), once the final file is
\* written
CliSaveState ==
    /\ phase = "cli"
    /\ pc = "generated"
    /\ \E writeOk \in BOOLEAN :
          LET r == saveState(result[1], stateFile, writeOk)
          IN  /\ smState' = r.state
              /\ stateFile' = r.stateFile
    /\ fullResult' = result
    /\ phase' = "cli-done"
    /\ UNCHANGED <<resp, existingMermaid, buckets0, pc, i, state, pbBuckets, pbOffset,
                   calls, result, error, checkpointFile, checkpointed>>
    /\ UNCHANGED <<plannerVars, finalVars, sanVars>>

\* A caller stops after n buckets: it runs processBuckets on the first n of
\* the buckets createBuckets gives it.
StopAfter ==
    /\ phase = "cli-done"
    /\ \E n \in 1..(Len(buckets0) - 1) :
          /\ pbBuckets' = SubSeq(buckets0, 1, n)
          /\ state' = processBucketsStart(SubSeq(buckets0, 1, n), existingMermaid)
    /\ pbOffset' = 0
    /\ i' = 0
    /\ pc' = "loop"
    /\ calls' = <<>>
    /\ result' = <<>>
    /\ phase' = "first"
    /\ UNCHANGED <<resp, existingMermaid, buckets0, error, fullResult, smState,
                   stateFile, checkpointFile, checkpointed>>
    /\ UNCHANGED <<plannerVars, finalVars, sanVars>>

\* The caller saves what the first run returned: saveState(state), then
\* createCheckpoint(buckets) on all the buckets
Checkpoint ==
    /\ phase = "first"
    /\ pc = "returned"
    /\ \E writeOk \in BOOLEAN, checkpointOk \in BOOLEAN :
          LET saved == saveState(result[1], stateFile, writeOk)
              all == pbBuckets \o SubSeq(buckets0, Len(pbBuckets) + 1, Len(buckets0))
              made == createCheckpoint(saved.state, all, checkpointFile, checkpointOk)
          IN  /\ smState' = saved.state
              /\ stateFile' = saved.stateFile
              /\ checkpointFile' = made.checkpointFile
              /\ checkpointed' = IF made.threw THEN checkpointed
                                 ELSE <<[state |-> saved.state[1], buckets |-> all]>>
              /\ phase' = IF made.threw THEN "aborted" ELSE "checkpointed"
    /\ UNCHANGED <<resp, existingMermaid, buckets0, pc, i, state, pbBuckets, pbOffset,
                   calls, result, error, fullResult>>
    /\ UNCHANGED <<plannerVars, finalVars, sanVars>>

\* The caller resumes: loadCheckpoint(), then processBuckets on the buckets
\* after the cursor of the loaded state, with the loaded diagram as the
\* existing one.
Resume ==
    /\ phase = "checkpointed"
    /\ \E readOk \in BOOLEAN, unreadable \in {{}} \cup {{path} : path \in DOMAIN Disk} :
          LET loaded == loadCheckpoint(checkpointFile, readOk, unreadable, Disk)
          IN  IF loaded = <<>>
              THEN /\ phase' = "aborted"
                   /\ UNCHANGED <<pbBuckets, pbOffset, state, i, pc, result>>
              ELSE LET from == loaded[1].state.current_bucket_index + 1
                       rest == SubSeq(loaded[1].buckets, from + 1, Len(loaded[1].buckets))
                   IN  /\ phase' = "resumed"
                       /\ pbBuckets' = rest
                       /\ pbOffset' = from
                       /\ state' = processBucketsStart(rest, loaded[1].state.accumulated_mermaid)
                       /\ i' = 0
                       /\ pc' = "loop"
                       /\ result' = <<>>
    /\ UNCHANGED <<resp, existingMermaid, buckets0, calls, error, fullResult, smState,
                   stateFile, checkpointFile, checkpointed>>
    /\ UNCHANGED <<plannerVars, finalVars, sanVars>>

RunNext ==
    \/ CliProcessBuckets
    \/ Invoke
    \/ Respond
    \/ Return
    \/ CliGenerateFinal
    \/ CliSaveState
    \/ StopAfter
    \/ Checkpoint
    \/ Resume

RunSpecInit == RunInit /\ PlannerIdle /\ SanIdle

RunSpec == RunSpecInit /\ [][RunNext]_vars

-----------------------------------------------------------------------------
(* The command-line run with fragments and prior diagrams of any text       *)

\* What llmClient.processBucket may return as mermaid_content: nothing, a
\* node, a blank, a text that holds the delimiter
FragmentChoices ==
    {<<>>, <<"A">>, <<" ">>, <<"A">> \o FragmentDelimiter \o <<"B">>}

\* What the file of --existing-mermaid may hold
ExistingChoices == {<<>>, <<"X">>, <<"\n">>}

FragmentInit ==
    /\ buckets0 \in RunBucketLists
    /\ \E c \in [1..Len(buckets0) -> FragmentChoices] :
          resp = [k \in 1..Len(buckets0) |->
                     [ok |-> TRUE, summary |-> <<>>, mermaid_content |-> c[k], error |-> 0]]
    /\ existingMermaid \in ExistingChoices
    /\ phase = "cli"
    /\ pc = "start"
    /\ i = 0
    /\ state = NoState
    /\ pbBuckets = <<>>
    /\ pbOffset = 0
    /\ calls = <<>>
    /\ result = <<>>
    /\ error = <<>>
    /\ fullResult = <<>>
    /\ smState = <<>>
    /\ stateFile = <<>>
    /\ checkpointFile = <<>>
    /\ checkpointed = <<>>
    /\ includeSummary = TRUE
    /\ mergeCalls = <<>>
    /\ warnings = <<>>
    /\ outputFile = <<>>

FragmentNext ==
    \/ CliProcessBuckets
    \/ Invoke
    \/ Respond
    \/ Return
    \/ CliGenerateFinal

FragmentSpecInit == FragmentInit /\ PlannerIdle /\ SanIdle

FragmentSpec == FragmentSpecInit /\ [][FragmentNext]_vars

-----------------------------------------------------------------------------
(* GitHubActionHandler.processCodebase: files discovered, bucketed,         *)
(* processed and merged into the final file                                 *)

\* A discovered file is small, or far above the hard limit
HandlerChoices ==
    {[content |-> CodeContent, estimated_tokens |-> e] : e \in {600, 500000}}

HandlerFileLists ==
    UNION {{[k \in 1..n |-> FileInfo(k, c[k])] : c \in [1..n -> HandlerChoices]}
              : n \in 0..MaxFiles}

\* What llmClient.mergeOrRepairMermaid answers: nothing, a blank, a diagram,
\* a text of no diagram type, unbalanced brackets and parentheses, a type in
\* capitals, a label the sanitizer rewrites
HandlerMergedChoices ==
    {<<>>,
     <<" ">>,
     <<"p", "i", "e">>,
     <<"x">>,
     <<"[", "]">>,
     <<"p", "i", "e", "[">>,
     <<"p", "i", "e", "(">>,
     <<"p", "i", "e", ")", "(">>,
     <<"P", "I", "E", "(", ")", "[", "]">>,
     <<"p", "i", "e", "\n", "A", "[", "-", "]", " ">>}

\* The answers of llmClient.processBucket to the handler: a summary and a
\* fragment, an empty answer, a failure
HandlerResponses ==
    {r \in ResponseChoices : r.ok => (r.summary = <<>> <=> r.mermaid_content = <<>>)}

HandlerInit ==
    /\ maxTokensPerBucket = 1000
    /\ tokenThreshold = 9
    /\ skippedFiles = <<>>
    /\ files \in HandlerFileLists
    /\ pool = <<>>
    /\ lastOp = NoOp
    /\ resp = <<>>
    /\ existingMermaid \in {<<>>, <<"X">>}
    /\ buckets0 = <<>>
    /\ phase = "handler"
    /\ pc = "discovered"
    /\ i = 0
    /\ state = NoState
    /\ pbBuckets = <<>>
    /\ pbOffset = 0
    /\ calls = <<>>
    /\ result = <<>>
    /\ error = <<>>
    /\ fullResult = <<>>
    /\ smState = <<>>
    /\ stateFile = <<>>
    /\ checkpointFile = <<>>
    /\ checkpointed = <<>>
    /\ includeSummary \in BOOLEAN
    /\ mergeCalls = <<>>
    /\ warnings = <<>>
    /\ outputFile = <<>>

\* processCodebase from the discovered files to the buckets: the throw on an
\* empty list, then createBuckets.  The generator's answers for the buckets
\* are fixed here.
HandlerCreateBuckets ==
    /\ phase = "handler"
    /\ pc = "discovered"
    /\ IF Len(files) = 0
       THEN /\ phase' = "handler-failed"
            /\ error' = <<"No files found to process">>
            /\ UNCHANGED <<skippedFiles, pool, lastOp, buckets0, resp, pc>>
       ELSE /\ LET r == createBuckets(files, maxTokensPerBucket, tokenThreshold)
               IN  /\ skippedFiles' = skippedFiles \o r.skipped
                   /\ pool' = r.buckets
                   /\ buckets0' = r.buckets
                   /\ lastOp' = [NoOp EXCEPT !.op = "createBuckets", !.files = files,
                                             !.skippedBefore = skippedFiles,
                                             !.ret = r.buckets, !.ok = TRUE]
                   /\ \E c \in [1..Len(r.buckets) -> HandlerResponses] :
                         resp' = [k \in 1..Len(r.buckets) |->
                                    IF c[k].ok THEN c[k] ELSE [c[k] EXCEPT !.error = k]]
            /\ pc' = "start"
            /\ UNCHANGED <<phase, error>>
    /\ UNCHANGED <<maxTokensPerBucket, tokenThreshold, files>>
    /\ UNCHANGED <<existingMermaid, i, state, pbBuckets, pbOffset, calls, result,
                   fullResult, smState, stateFile, checkpointFile, checkpointed, finalVars>>
    /\ UNCHANGED sanVars

\* const state = await mermaidGenerator.processBuckets(buckets, existingMermaid)
HandlerProcessBuckets ==
    /\ phase = "handler"
    /\ pc = "start"
    /\ pbBuckets' = buckets0
    /\ pbOffset' = 0
    /\ state' = processBucketsStart(buckets0, existingMermaid)
    /\ i' = 0
    /\ pc' = "loop"
    /\ UNCHANGED <<resp, existingMermaid, buckets0, phase, calls, result, error,
                   fullResult, smState, stateFile, checkpointFile, checkpointed>>
    /\ UNCHANGED <<plannerVars, finalVars, sanVars>>

\* const finalContent = await mermaidGenerator.generateFinalMermaidFile(state):
\* no list of skipped files is passed
HandlerGenerateFinal ==
    /\ phase = "handler"
    /\ pc = "returned"
    /\ mergeCalls' = Append(mergeCalls, collectFragments(result[1].accumulated_mermaid))
    /\ \E answer \in {<<>>} \cup {<<merged>> : merged \in HandlerMergedChoices},
          writeOk \in BOOLEAN :
          \E r \in {generateFinalMermaidFile(result[1], <<>>, includeSummary, answer,
                                             writeOk, outputFile)} :
              /\ warnings' = r.warnings
              /\ outputFile' = r.outputFile
              /\ phase' = IF r.threw THEN "handler-failed" ELSE "handler-done"
              /\ lastOp' = [NoOp EXCEPT !.op = "generateFinalMermaidFile",
                                        !.args = <<answer, writeOk>>,
                                        !.ret = r.ret, !.ok = ~r.threw]
    /\ UNCHANGED <<maxTokensPerBucket, tokenThreshold, skippedFiles, files, pool>>
    /\ UNCHANGED <<resp, existingMermaid, buckets0, pc, i, state, pbBuckets, pbOffset,
                   calls, result, error, fullResult, smState, stateFile, checkpointFile, checkpointed,
                   includeSummary>>
    /\ UNCHANGED sanVars

HandlerNext ==
    \/ HandlerCreateBuckets
    \/ HandlerProcessBuckets
    \/ Invoke
    \/ Respond
    \/ Return
    \/ HandlerGenerateFinal

HandlerSpecInit == HandlerInit /\ SanIdle

HandlerSpec == HandlerSpecInit /\ [][HandlerNext]_vars

-----------------------------------------------------------------------------
(* The StateManager and a caller that saves and loads, while the storage    *)
(* may fail                                                                 *)

\* The ProcessingState values the caller saves
StoreStates ==
    {[current_bucket_index |-> c, total_buckets |-> MaxBuckets, processed_files |-> c + 1,
      total_files |-> 2 * MaxBuckets, accumulated_summary |-> <<"s">>,
      accumulated_mermaid |-> <<"A">>] : c \in {0, 1}}

\* The files that cannot be read when a checkpoint is loaded: none, one, all
UnreadableChoices == {{}} \cup {{path} : path \in DOMAIN Disk} \cup {DOMAIN Disk}

\* await stateManager.saveState(st)
StoreSaveState ==
    /\ \E st \in StoreStates, writeOk \in BOOLEAN :
          LET r == saveState(st, stateFile, writeOk)
          IN  /\ smState' = r.state
              /\ stateFile' = r.stateFile
              /\ lastOp' = [NoOp EXCEPT !.op = "saveState", !.args = <<st, writeOk>>,
                                        !.ok = TRUE]
    /\ UNCHANGED <<maxTokensPerBucket, tokenThreshold, skippedFiles, files, pool>>
    /\ UNCHANGED <<resp, existingMermaid, buckets0, phase, pc, i, state, pbBuckets,
                   pbOffset, calls, result, error, fullResult, checkpointFile,
                   checkpointed, finalVars>>
    /\ UNCHANGED sanVars

\* const loaded = await stateManager.loadState()
StoreLoadState ==
    /\ \E readOk \in BOOLEAN :
          LET r == loadState(stateFile, smState, readOk)
          IN  /\ smState' = r.state
              /\ lastOp' = [NoOp EXCEPT !.op = "loadState", !.args = <<readOk>>,
                                        !.ret = r.ret, !.ok = TRUE]
    /\ UNCHANGED <<maxTokensPerBucket, tokenThreshold, skippedFiles, files, pool>>
    /\ UNCHANGED <<resp, existingMermaid, buckets0, phase, pc, i, state, pbBuckets,
                   pbOffset, calls, result, error, fullResult, stateFile, checkpointFile,
                   checkpointed, finalVars>>
    /\ UNCHANGED sanVars

\* await stateManager.createCheckpoint(buckets)
StoreCreateCheckpoint ==
    /\ \E buckets \in RunBucketLists, writeOk \in BOOLEAN :
          LET made == createCheckpoint(smState, buckets, checkpointFile, writeOk)
          IN  /\ checkpointFile' = made.checkpointFile
              /\ checkpointed' = IF made.threw THEN checkpointed
                                 ELSE <<[state |-> smState[1], buckets |-> buckets]>>
              /\ lastOp' = [NoOp EXCEPT !.op = "createCheckpoint",
                                        !.args = <<buckets, writeOk>>,
                                        !.after = smState,
                                        !.ok = ~made.threw]
    /\ UNCHANGED <<maxTokensPerBucket, tokenThreshold, skippedFiles, files, pool>>
    /\ UNCHANGED <<resp, existingMermaid, buckets0, phase, pc, i, state, pbBuckets,
                   pbOffset, calls, result, error, fullResult, smState, stateFile,
                   finalVars>>
    /\ UNCHANGED sanVars

\* const loaded = await stateManager.loadCheckpoint()
StoreLoadCheckpoint ==
    /\ \E readOk \in BOOLEAN, unreadable \in UnreadableChoices :
          lastOp' = [NoOp EXCEPT !.op = "loadCheckpoint",
                                 !.args = <<readOk, unreadable>>,
                                 !.ret = loadCheckpoint(checkpointFile, readOk, unreadable, Disk),
                                 !.ok = TRUE]
    /\ UNCHANGED <<maxTokensPerBucket, tokenThreshold, skippedFiles, files, pool>>
    /\ UNCHANGED <<runVars, sanVars>>

StoreNext ==
    \/ StoreSaveState
    \/ StoreLoadState
    \/ StoreCreateCheckpoint
    \/ StoreLoadCheckpoint

StoreSpecInit == PlannerIdle /\ RunIdle /\ SanIdle

StoreSpec == StoreSpecInit /\ [][StoreNext]_vars

-----------------------------------------------------------------------------
(* The StateManager from its construction: a caller that initializes,       *)
(* updates, saves, loads, checkpoints and resets                            *)

\* stateManager.initializeState(totalFiles, totalBuckets)
InitializeState ==
    /\ \E totalFiles \in {0, 2 * MaxBuckets} :
          /\ smState' = <<initializeState(totalFiles, MaxBuckets)>>
          /\ lastOp' = [NoOp EXCEPT !.op = "initializeState",
                                    !.args = <<totalFiles, MaxBuckets>>,
                                    !.ret = smState', !.ok = TRUE]
    /\ UNCHANGED <<maxTokensPerBucket, tokenThreshold, skippedFiles, files, pool>>
    /\ UNCHANGED <<resp, existingMermaid, buckets0, phase, pc, i, state, pbBuckets,
                   pbOffset, calls, result, error, fullResult, stateFile, checkpointFile,
                   checkpointed, finalVars>>
    /\ UNCHANGED sanVars

\* stateManager.updateState(bucketIndex, filesProcessed, summary,
\* mermaidContent); lastOp.ret is the error thrown or the state returned
UpdateState ==
    /\ smState # <<>> => smState[1].processed_files < MaxProcessed
    /\ \E bucketIndex \in {1, 2}, filesProcessed \in {1, 2},
          summary \in {<<"s">>}, mermaidContent \in {<<"A">>} :
          LET r == updateState(smState, bucketIndex, filesProcessed, summary, mermaidContent)
          IN  /\ smState' = r.state
              /\ lastOp' = [NoOp EXCEPT !.op = "updateState",
                                        !.args = <<bucketIndex, filesProcessed,
                                                   summary, mermaidContent>>,
                                        !.ret = IF r.error # <<>> THEN r.error ELSE r.state,
                                        !.ok = r.error = <<>>]
    /\ UNCHANGED <<maxTokensPerBucket, tokenThreshold, skippedFiles, files, pool>>
    /\ UNCHANGED <<resp, existingMermaid, buckets0, phase, pc, i, state, pbBuckets,
                   pbOffset, calls, result, error, fullResult, stateFile, checkpointFile,
                   checkpointed, finalVars>>
    /\ UNCHANGED sanVars

\* await stateManager.resetState(); lastOp.ok tells that no state file is
\* left
ResetState ==
    /\ \E removeOk \in BOOLEAN :
          LET r == resetState(stateFile, removeOk)
          IN  /\ smState' = r.state
              /\ stateFile' = r.stateFile
              /\ lastOp' = [NoOp EXCEPT !.op = "resetState", !.args = <<removeOk>>,
                                        !.ok = r.stateFile = <<>>]
    /\ UNCHANGED <<maxTokensPerBucket, tokenThreshold, skippedFiles, files, pool>>
    /\ UNCHANGED <<resp, existingMermaid, buckets0, phase, pc, i, state, pbBuckets,
                   pbOffset, calls, result, error, fullResult, checkpointFile,
                   checkpointed, finalVars>>
    /\ UNCHANGED sanVars

\* stateManager.getCurrentState()
GetCurrentState ==
    /\ lastOp.op # "getCurrentState"
    /\ lastOp' = [NoOp EXCEPT !.op = "getCurrentState", !.ret = getCurrentState(smState),
                              !.ok = TRUE]
    /\ UNCHANGED <<maxTokensPerBucket, tokenThreshold, skippedFiles, files, pool>>
    /\ UNCHANGED <<runVars, sanVars>>

\* The caller checkpoints a manager it has just made, initialized or reset
HoldCreateCheckpoint ==
    /\ lastOp.op \in {"none", "initializeState", "resetState"}
    /\ StoreCreateCheckpoint

HoldNext ==
    \/ InitializeState
    \/ UpdateState
    \/ StoreSaveState
    \/ StoreLoadState
    \/ HoldCreateCheckpoint
    \/ ResetState
    \/ GetCurrentState

HoldSpecInit == PlannerIdle /\ RunIdle /\ SanIdle

HoldSpec == HoldSpecInit /\ [][HoldNext]_vars

-----------------------------------------------------------------------------
(* The TokenCalculator and a caller that weighs one file                    *)

\* The characters of the contents: a letter, a blank, a line end, the
\* openings of a comment, structure characters
WeighChars == {"a", " ", "\n", "/", ";", "("}

WeighContents == UNION {[1..n -> WeighChars] : n \in 0..MaxContent}

\* The estimates a file carries: none worth using (negative, zero), and
\* positive ones
WeighEstimates == {-1, 0, 1, 7}

WeighInit ==
    /\ maxTokensPerBucket = 0
    /\ tokenThreshold = 0
    /\ skippedFiles = <<>>
    /\ \E text \in WeighContents, e \in WeighEstimates :
          files = <<FileInfo(1, [content |-> text, estimated_tokens |-> e])>>
    /\ pool = <<>>
    /\ lastOp = NoOp

\* const tokens = tokenCalculator.calculateFileTokens(file)
CalculateFileTokens ==
    /\ lastOp.op = "none"
    /\ lastOp' = [NoOp EXCEPT !.op = "calculateFileTokens", !.files = files,
                              !.ret = <<calculateFileTokens(files[1])>>, !.ok = TRUE]
    /\ UNCHANGED <<maxTokensPerBucket, tokenThreshold, skippedFiles, files, pool>>
    /\ UNCHANGED <<runVars, sanVars>>

WeighSpecInit == WeighInit /\ RunIdle /\ SanIdle

WeighSpec == WeighSpecInit /\ [][CalculateFileTokens]_vars

-----------------------------------------------------------------------------
(* The sanitizer and its caller *)

\* The characters of the diagram texts: a node name, the brackets of a
\* label, the dash and the angle of an arrow, a quote
SanChars == {"A", "[", "]", "-", ">", Quote}

SanTexts == UNION {[1..n -> SanChars] : n \in 0..MaxText}

SanInit ==
    /\ sanText \in SanTexts
    /\ passes = 0

\* const sanitizedMermaid = this.sanitizeMermaidContent(merged), and a
\* caller that passes the result through again
Sanitize ==
    /\ passes < MaxPasses
    /\ sanText' = sanitizeMermaidContent(sanText)
    /\ passes' = passes + 1
    /\ UNCHANGED <<plannerVars, runVars>>

SanSpecInit == SanInit /\ PlannerIdle /\ RunIdle

SanSpec == SanSpecInit /\ [][Sanitize]_vars

-----------------------------------------------------------------------------
(* Properties of the planner *)

\* How many elements of the sequence satisfy the test
CountSeq(s, Test(_)) == Cardinality({k \in DOMAIN s : Test(s[k])})

FilesOf(buckets) == Flatten([k \in DOMAIN buckets |-> buckets[k].files])

WeightsOf(buckets) == SumSeq([k \in DOMAIN buckets |-> buckets[k].total_tokens])

\* The skip records the last createBuckets call pushed
NewSkipped == SubSeq(skippedFiles, Len(lastOp.skippedBefore) + 1, Len(skippedFiles))

TimesBucketed(file) == LET Is(f) == f = file IN CountSeq(FilesOf(lastOp.ret), Is)

TimesSkipped(file) == LET Is(r) == r.path = file.path IN CountSeq(NewSkipped, Is)

SkippedInputWeight ==
    LET fs == lastOp.files
        w(k) == IF TimesSkipped(fs[k]) > 0 THEN calculateFileTokens(fs[k]) ELSE 0
    IN  SumSeq([k \in DOMAIN fs |-> w(k)])

\* C1: after one createBuckets call on a planner whose skip list was empty,
\* every input item is in exactly one returned bucket or in exactly one skip
\* record, never both and never neither, and the weights of the returned
\* buckets plus the weights of the skipped items add up to the weights of
\* all the input items.
C1_EveryItemAccounted ==
    (lastOp.op = "createBuckets" /\ lastOp.skippedBefore = <<>>) =>
        /\ \A k \in DOMAIN lastOp.files :
              TimesBucketed(lastOp.files[k]) + TimesSkipped(lastOp.files[k]) = 1
        /\ Len(FilesOf(lastOp.ret)) + Len(NewSkipped) = Len(lastOp.files)
        /\ WeightsOf(lastOp.ret) + SkippedInputWeight = calculateTotalTokens(lastOp.files)

C1_Witness ==
    /\ lastOp.op = "createBuckets"
    /\ lastOp.skippedBefore = <<>>
    /\ Len(lastOp.ret) >= 2
    /\ Len(NewSkipped) >= 1

\* C2: every bucket createBuckets returns weighs at most the hard limit,
\* also when tokenThreshold x maxTokensPerBucket lies above the hard limit.
C2_BucketsWithinHardLimit ==
    lastOp.op = "createBuckets" =>
        \A k \in DOMAIN lastOp.ret : lastOp.ret[k].total_tokens <= hardLimit

C2_Witness ==
    /\ lastOp.op = "createBuckets"
    /\ maxTokensPerBucket * tokenThreshold > hardLimit * ThresholdDen
    /\ Len(lastOp.ret) >= 2
    /\ \E k \in DOMAIN lastOp.ret : Len(lastOp.ret[k].files) >= 2

\* C8: createBuckets gives an item a skip record exactly when the item's
\* own weight is above the hard limit; such an item is in no bucket and its
\* record's reason contains "exceeds hard limit"; an item weighing exactly
\* the hard limit is bucketed; a single item of weight 500000 gives no
\* bucket and one skip record.
C8_SkippedIffOverHardLimit ==
    lastOp.op = "createBuckets" =>
        /\ \A k \in DOMAIN lastOp.files :
              LET file == lastOp.files[k]
              IN  /\ TimesSkipped(file) > 0 <=> calculateFileTokens(file) > hardLimit
                  /\ TimesSkipped(file) > 0 => TimesBucketed(file) = 0
                  /\ calculateFileTokens(file) = hardLimit => TimesBucketed(file) = 1
        /\ \A k \in DOMAIN NewSkipped :
              "exceeds hard limit" \in Range(NewSkipped[k].reason)
        /\ (Len(lastOp.files) = 1 /\ calculateFileTokens(lastOp.files[1]) = 500000) =>
              (lastOp.ret = <<>> /\ Len(NewSkipped) = 1)

C8_Witness ==
    /\ lastOp.op = "createBuckets"
    /\ \E k \in DOMAIN lastOp.files :
          calculateFileTokens(lastOp.files[k]) = hardLimit /\ TimesBucketed(lastOp.files[k]) = 1
    /\ \E k \in DOMAIN lastOp.files :
          calculateFileTokens(lastOp.files[k]) = hardLimit + 1 /\ TimesSkipped(lastOp.files[k]) = 1

\* C9: mergeBuckets(A, B) returns a bucket exactly when A's weight plus B's
\* is at most the capacity; the bucket it returns weighs the two together
\* and holds A's items followed by B's; A and B are left as they were.
C9_MergeIsPure ==
    lastOp.op = "mergeBuckets" =>
        LET A == lastOp.args[1]
            B == lastOp.args[2]
        IN  /\ lastOp.ret # <<>> <=> A.total_tokens + B.total_tokens <= maxTokensPerBucket
            /\ lastOp.ret # <<>> =>
                  /\ lastOp.ret[1].total_tokens = A.total_tokens + B.total_tokens
                  /\ lastOp.ret[1].files = A.files \o B.files
            /\ lastOp.after = lastOp.args

C9_Witness ==
    /\ lastOp.op = "mergeBuckets"
    /\ lastOp.ret # <<>>
    /\ lastOp.args[1].files # <<>>
    /\ lastOp.args[2].files # <<>>

C9_WitnessNull ==
    /\ lastOp.op = "mergeBuckets"
    /\ lastOp.ret = <<>>

SplitReturnsFittingParts ==
    /\ Len(lastOp.ret) >= 2
    /\ \A k \in DOMAIN lastOp.ret : lastOp.ret[k].total_tokens <= maxTokensPerBucket

\* C10 as claimed: for every bucket weighing more than the capacity,
\* splitBucket returns at least 2 buckets, none above the capacity.
C10_SplitAlwaysFits ==
    (lastOp.op = "splitBucket" /\ lastOp.args[1].total_tokens > maxTokensPerBucket) =>
        SplitReturnsFittingParts

\* C10 as amended: for every bucket that weighs more than the capacity,
\* whose weight is the sum of its items' weights and none of whose items
\* weighs more than the capacity, splitBucket returns at least 2 buckets,
\* none above the capacity.
C10_SplitFitsWhenItemsFit ==
    (/\ lastOp.op = "splitBucket"
     /\ lastOp.args[1].total_tokens > maxTokensPerBucket
     /\ lastOp.args[1].total_tokens = calculateTotalTokens(lastOp.args[1].files)
     /\ \A k \in DOMAIN lastOp.args[1].files :
           calculateFileTokens(lastOp.args[1].files[k]) <= maxTokensPerBucket) =>
        SplitReturnsFittingParts

C10_Witness ==
    /\ lastOp.op = "splitBucket"
    /\ lastOp.args[1].total_tokens > maxTokensPerBucket
    /\ Len(lastOp.args[1].files) >= 3
    /\ \A k \in DOMAIN lastOp.args[1].files :
          calculateFileTokens(lastOp.args[1].files[k]) <= maxTokensPerBucket
    /\ Len(lastOp.ret) >= 2

\* How many times the file is in the list
TimesIn(fs, file) == Cardinality({k \in DOMAIN fs : fs[k] = file})

\* The two lists hold the same files, each as many times
SameFiles(fs, gs) ==
    /\ Len(fs) = Len(gs)
    /\ \A k \in DOMAIN fs : TimesIn(fs, fs[k]) = TimesIn(gs, fs[k])

\* C11: the buckets splitBucket returns hold together exactly the items of
\* the bucket it was given, each once, and each of them weighs the sum of
\* its own items; a bucket that weighs no more than the capacity comes back
\* as the one element of the list, as it was.
C11_SplitKeepsItems ==
    lastOp.op = "splitBucket" =>
        /\ SameFiles(FilesOf(lastOp.ret), lastOp.args[1].files)
        /\ \A k \in DOMAIN lastOp.ret :
              lastOp.ret[k].total_tokens = calculateTotalTokens(lastOp.ret[k].files)
        /\ lastOp.args[1].total_tokens <= maxTokensPerBucket =>
              (lastOp.ret = <<lastOp.args[1]>> /\ lastOp.after = lastOp.args)

C11_Witness ==
    /\ lastOp.op = "splitBucket"
    /\ lastOp.args[1].total_tokens > maxTokensPerBucket
    /\ Len(lastOp.args[1].files) >= 3
    /\ Len(lastOp.ret) >= 2
    /\ \E k \in DOMAIN lastOp.ret : Len(lastOp.ret[k].files) >= 2

BucketsWithinCapacity(buckets) ==
    \A k \in DOMAIN buckets : buckets[k].total_tokens <= maxTokensPerBucket

NoFileAboveCapacity(fs) ==
    \A k \in DOMAIN fs : calculateFileTokens(fs[k]) <= maxTokensPerBucket

\* C12 as claimed: every bucket createBuckets returns weighs at most the
\* capacity, whatever the input list.
C12_BucketsWithinCapacity ==
    lastOp.op = "createBuckets" => BucketsWithinCapacity(lastOp.ret)

\* C12 as amended: when no file of the input list weighs more than the
\* capacity and the threshold is at most 1, every bucket createBuckets
\* returns weighs at most the capacity.
C12_WithinCapacityWhenItemsFit ==
    (/\ lastOp.op = "createBuckets"
     /\ NoFileAboveCapacity(lastOp.files)
     /\ tokenThreshold <= ThresholdDen) =>
        BucketsWithinCapacity(lastOp.ret)

C12_Witness ==
    /\ lastOp.op = "createBuckets"
    /\ NoFileAboveCapacity(lastOp.files)
    /\ maxTokensPerBucket < hardLimit
    /\ Len(lastOp.ret) >= 2
    /\ \E k \in DOMAIN lastOp.ret : Len(lastOp.ret[k].files) >= 2

\* C16: a bucket createBuckets returns with two or more items weighs at
\* most tokenThreshold x maxTokensPerBucket; only a bucket of one item may
\* weigh more.
C16_SharedBucketsWithinThreshold ==
    lastOp.op = "createBuckets" =>
        \A k \in DOMAIN lastOp.ret :
            Len(lastOp.ret[k].files) >= 2 =>
                ~OverThreshold(lastOp.ret[k].total_tokens, maxTokensPerBucket, tokenThreshold)

C16_Witness ==
    /\ lastOp.op = "createBuckets"
    /\ \E k \in DOMAIN lastOp.ret : Len(lastOp.ret[k].files) >= 2
    /\ \E k \in DOMAIN lastOp.ret :
          /\ Len(lastOp.ret[k].files) = 1
          /\ OverThreshold(lastOp.ret[k].total_tokens, maxTokensPerBucket, tokenThreshold)

-----------------------------------------------------------------------------
(* Properties of the planner on the files of the tests *)

IsMockList(fs) == SameFiles(fs, [k \in DOMAIN MockTokens |-> MockFile(k)])

TokensOf(fs) == {calculateFileTokens(fs[k]) : k \in DOMAIN fs}

\* C22: createBuckets on the four files of 200, 300, 400 and 500, in any
\* order, with capacity 1000 and threshold 0.9, returns two buckets: the
\* first weighs 900 and holds the files of 500 and 400, the second weighs
\* 500 and holds those of 300 and 200; nothing is skipped.
C22_MockFilesInTwoBuckets ==
    (lastOp.op = "createBuckets" /\ IsMockList(lastOp.files)) =>
        /\ Len(lastOp.ret) = 2
        /\ lastOp.ret[1].total_tokens = 900
        /\ Len(lastOp.ret[1].files) = 2
        /\ TokensOf(lastOp.ret[1].files) = {500, 400}
        /\ lastOp.ret[2].total_tokens = 500
        /\ Len(lastOp.ret[2].files) = 2
        /\ TokensOf(lastOp.ret[2].files) = {300, 200}
        /\ skippedFiles = <<>>

\* the files given smallest first
C22_Witness ==
    /\ lastOp.op = "createBuckets"
    /\ IsMockList(lastOp.files)
    /\ [k \in DOMAIN lastOp.files |-> lastOp.files[k].estimated_tokens] = MockTokens
    /\ Len(lastOp.ret) = 2

\* The weight of each file of the list
FileTokens(fs) == [k \in DOMAIN fs |-> calculateFileTokens(fs[k])]

NonIncreasing(weights) ==
    \A k \in 1..(Len(weights) - 1) : weights[k] >= weights[k + 1]

\* C23: createBuckets and splitBucket place the files in non-increasing
\* order of the weight calculateFileTokens gives them (the buckets filled
\* one after the other show the order); the list that was passed is left
\* as it was.
C23_HeaviestFirst ==
    /\ lastOp.op = "createBuckets" =>
          /\ NonIncreasing(FileTokens(FilesOf(lastOp.ret)))
          /\ files = lastOp.files
    /\ lastOp.op = "splitBucket" =>
          /\ Len(lastOp.ret) >= 2 => NonIncreasing(FileTokens(FilesOf(lastOp.ret)))
          /\ lastOp.after = lastOp.args

-----------------------------------------------------------------------------
(* Properties of the TokenCalculator *)

\* C21: the weight of a file is at least 1: calculateFileTokens returns the
\* file's estimate when it is above 0 and otherwise the estimate made of the
\* content, which is at least 1 and is 1 for the empty content.
C21_WeightAtLeastOne ==
    lastOp.op = "calculateFileTokens" =>
        LET file == lastOp.files[1]
            tokens == lastOp.ret[1]
        IN  /\ tokens >= 1
            /\ file.estimated_tokens > 0 => tokens = file.estimated_tokens
            /\ ~(file.estimated_tokens > 0) =>
                  /\ tokens = estimateTokens(file.content)
                  /\ file.content = <<>> => tokens = 1

\* a content of nothing but a comment, weighed 1
C21_Witness ==
    /\ lastOp.op = "calculateFileTokens"
    /\ lastOp.files[1].estimated_tokens = 0
    /\ lastOp.files[1].content = <<"/", "/", "a">>
    /\ lastOp.ret = <<1>>

C21_WitnessEmpty ==
    /\ lastOp.op = "calculateFileTokens"
    /\ lastOp.files[1].estimated_tokens = 0
    /\ lastOp.files[1].content = <<>>
    /\ lastOp.ret = <<1>>

C21_WitnessCounted ==
    /\ lastOp.op = "calculateFileTokens"
    /\ lastOp.files[1].estimated_tokens = -1
    /\ lastOp.ret[1] >= 3

-----------------------------------------------------------------------------
(* Properties of the edited buckets *)

\* The list optimizeBuckets was given is one createBuckets makes of the
\* caller's files
OptimizedCreated ==
    /\ lastOp.op = "optimizeBuckets"
    /\ lastOp.args = createBuckets(files, maxTokensPerBucket, tokenThreshold).buckets

\* C13 as claimed: every bucket optimizeBuckets returns for a list made by
\* createBuckets weighs at most the capacity.
C13_OptimizedWithinCapacity ==
    OptimizedCreated => BucketsWithinCapacity(lastOp.ret)

\* C13 as amended: when no file weighs more than the capacity and the
\* threshold is at most 1, every bucket optimizeBuckets returns for a list
\* made by createBuckets of these files weighs at most the capacity.
C13_OptimizedWithinCapacityWhenItemsFit ==
    (/\ OptimizedCreated
     /\ NoFileAboveCapacity(files)
     /\ tokenThreshold <= ThresholdDen) =>
        BucketsWithinCapacity(lastOp.ret)

\* three under-utilized buckets, of which the first two were merged and the
\* third was refused
C13_Witness ==
    /\ OptimizedCreated
    /\ NoFileAboveCapacity(files)
    /\ Len(lastOp.args) = 3
    /\ \A k \in DOMAIN lastOp.args : UnderUtilized(lastOp.args[k], maxTokensPerBucket)
    /\ Len(lastOp.ret) = 2

\* C14: addFileToBucket returns true, appends the file and raises
\* total_tokens by the file's weight exactly when total_tokens plus that
\* weight is at most the capacity; otherwise it returns false and leaves the
\* bucket as it was.
C14_AddIffFits ==
    lastOp.op = "addFileToBucket" =>
        LET bucket == lastOp.args[1]
            file == lastOp.files[1]
            left == lastOp.after[1]
            fits == bucket.total_tokens + calculateFileTokens(file) <= maxTokensPerBucket
        IN  /\ lastOp.ok <=> fits
            /\ fits => /\ left.files = Append(bucket.files, file)
                       /\ left.total_tokens = bucket.total_tokens + calculateFileTokens(file)
            /\ ~fits => left = bucket

\* a file that fills the bucket to the capacity exactly
C14_Witness ==
    /\ lastOp.op = "addFileToBucket"
    /\ lastOp.ok
    /\ lastOp.args[1].files # <<>>
    /\ lastOp.after[1].total_tokens = maxTokensPerBucket

C14_WitnessRefused ==
    /\ lastOp.op = "addFileToBucket"
    /\ ~lastOp.ok
    /\ lastOp.args[1].total_tokens < maxTokensPerBucket

PathsOf(fs) == {fs[k].path : k \in DOMAIN fs}

\* C15: removeFileFromBucket takes out one file of the path, the first, and
\* lowers total_tokens by its weight, returning true; with no file of the
\* path it returns false and leaves the bucket as it was. Removing the path
\* of a file just added to a bucket that had none of that path gives the
\* bucket back.
C15_RemoveOne ==
    /\ lastOp.op = "removeFileFromBucket" =>
          LET bucket == lastOp.args[1]
              filePath == lastOp.args[2]
              left == lastOp.after[1]
              at == {k \in DOMAIN bucket.files : bucket.files[k].path = filePath}
          IN  /\ lastOp.ok <=> at # {}
              /\ at = {} => left = bucket
              /\ at # {} =>
                    \E k \in at :
                        /\ left.files = SubSeq(bucket.files, 1, k - 1)
                                           \o SubSeq(bucket.files, k + 1, Len(bucket.files))
                        /\ left.total_tokens =
                              bucket.total_tokens - calculateFileTokens(bucket.files[k])
    /\ (/\ lastOp.op = "addFileToBucket"
        /\ lastOp.ok
        /\ lastOp.files[1].path \notin PathsOf(lastOp.args[1].files)) =>
          LET r == removeFileFromBucket(lastOp.after[1], lastOp.files[1].path)
          IN  r.ret /\ r.bucket = lastOp.args[1]

\* one of two files of the same path removed
C15_Witness ==
    /\ lastOp.op = "removeFileFromBucket"
    /\ lastOp.ok
    /\ Len(lastOp.args[1].files) = 2
    /\ lastOp.args[1].files[1].path = lastOp.args[1].files[2].path

C15_WitnessRoundTrip ==
    /\ lastOp.op = "addFileToBucket"
    /\ lastOp.ok
    /\ lastOp.args[1].files # <<>>
    /\ lastOp.files[1].path \notin PathsOf(lastOp.args[1].files)

\* C24: whatever the capacity, every bucket that createBuckets returned or
\* that addFileToBucket, removeFileFromBucket, mergeBuckets, splitBucket
\* and optimizeBuckets made of such buckets weighs at most the hard limit.
C24_PoolWithinHardLimit ==
    \A k \in DOMAIN pool : pool[k].total_tokens <= hardLimit

\* C26: optimizeBuckets returns buckets that hold together the items of
\* the buckets it was given, each exactly once, and that weigh together what
\* the given buckets weighed.
C26_OptimizeKeepsItems ==
    lastOp.op = "optimizeBuckets" =>
        /\ SameFiles(FilesOf(lastOp.ret), FilesOf(lastOp.args))
        /\ WeightsOf(lastOp.ret) = WeightsOf(lastOp.args)

\* three under-utilized buckets: the first two are merged, and the merged
\* bucket and the third are refused and both kept
C26_Witness ==
    /\ lastOp.op = "optimizeBuckets"
    /\ Len(lastOp.args) = 3
    /\ \A k \in DOMAIN lastOp.args : UnderUtilized(lastOp.args[k], maxTokensPerBucket)
    /\ Len(lastOp.ret) = 2
    /\ Len(lastOp.ret[2].files) = 2

\* an over-utilized bucket was split and an under-utilized one was kept
C26_WitnessSplit ==
    /\ lastOp.op = "optimizeBuckets"
    /\ \E k \in DOMAIN lastOp.args : OverUtilized(lastOp.args[k], maxTokensPerBucket)
    /\ \E k \in DOMAIN lastOp.args : UnderUtilized(lastOp.args[k], maxTokensPerBucket)

\* The files of the list that weigh more than the hard limit
Oversized(fs) == {k \in DOMAIN fs : calculateFileTokens(fs[k]) > hardLimit}

\* C27: a createBuckets call leaves the records the skip list held and adds
\* one record for each oversized file of the call; getSkippedFiles returns
\* the records of the list in their order; clearSkippedFiles leaves the
\* list empty and nothing else takes a record from it; pushing to the
\* returned array or popping from it leaves the planner's list as it was.
C27_SkipListCumulative ==
    /\ lastOp.op = "createBuckets" =>
          /\ SubSeq(skippedFiles, 1, Len(lastOp.skippedBefore)) = lastOp.skippedBefore
          /\ Len(NewSkipped) = Cardinality(Oversized(lastOp.files))
          /\ \A k \in DOMAIN lastOp.files :
                TimesSkipped(lastOp.files[k]) = IF k \in Oversized(lastOp.files) THEN 1 ELSE 0
    /\ lastOp.op = "getSkippedFiles" =>
          lastOp.ret = skippedFiles /\ skippedFiles = lastOp.skippedBefore
    /\ lastOp.op = "clearSkippedFiles" => skippedFiles = <<>>
    /\ lastOp.op = "discover" => skippedFiles = lastOp.skippedBefore
    /\ (lastOp.op = "modifyReturned" /\ lastOp.args[1] \in {"push", "pop"}) =>
          skippedFiles = lastOp.skippedBefore
    /\ lastOp.op = "modifyReturned" => Len(skippedFiles) = Len(lastOp.skippedBefore)

\* getSkippedFiles after two calls that skipped the file of the same path
C27_Witness ==
    /\ lastOp.op = "getSkippedFiles"
    /\ Len(lastOp.ret) >= 2
    /\ lastOp.ret[1].path = lastOp.ret[Len(lastOp.ret)].path

\* the caller pushed to the array it got from a planner that had skipped
C27_WitnessModified ==
    /\ lastOp.op = "modifyReturned"
    /\ lastOp.args[1] = "push"
    /\ skippedFiles # <<>>
    /\ Len(lastOp.ret) = Len(skippedFiles) + 1

\* the list was cleared when it held records
C27_WitnessCleared ==
    /\ lastOp.op = "clearSkippedFiles"
    /\ lastOp.skippedBefore # <<>>

\* One iteration of the merging loop: at least two buckets were in the
\* pool, two were taken out and at most one was put back
TwoOutOneBack ==
    (lastOp.op = Merging /\ lastOp'.op = Merging) =>
        /\ Len(lastOp.after[2]) >= 2
        /\ Len(lastOp'.after[2]) \in {Len(lastOp.after[2]) - 2, Len(lastOp.after[2]) - 1}

\* The loop is left with fewer than two buckets in the pool, and what is
\* left of the pool is returned after the optimized buckets
RemainderEmitted ==
    (lastOp.op = Merging /\ lastOp'.op = "optimizeBuckets") =>
        /\ Len(lastOp.after[2]) < 2
        /\ lastOp'.ret = lastOp.after[1] \o lastOp.after[2]
        /\ lastOp'.ret = optimizeBuckets(lastOp.args, maxTokensPerBucket)

\* C28: optimizeBuckets terminates: every iteration of its merging loop
\* takes two buckets out of the under-utilized pool and puts at most one
\* back, the loop is left when fewer than two remain, the one that remains
\* is returned, and a call that has reached the loop returns.
C28_OptimizeTerminates ==
    /\ [][TwoOutOneBack]_vars
    /\ [][RemainderEmitted]_vars
    /\ (lastOp.op = Merging) ~> (lastOp.op = "optimizeBuckets")

\* two under-utilized buckets were merged and the merged bucket, the one
\* left in the pool, was returned
C28_Witness ==
    /\ lastOp.op = "optimizeBuckets"
    /\ Len(lastOp.args) = 2
    /\ \A k \in DOMAIN lastOp.args : UnderUtilized(lastOp.args[k], maxTokensPerBucket)
    /\ Len(lastOp.ret) = 1

\* the loop after two iterations, a merge and a refusal, with an empty pool
C28_WitnessTwoIterations ==
    /\ lastOp.op = Merging
    /\ Len(lastOp.args) = 3
    /\ \A k \in DOMAIN lastOp.args : UnderUtilized(lastOp.args[k], maxTokensPerBucket)
    /\ lastOp.after[2] = <<>>
    /\ Len(lastOp.after[1]) = 2

-----------------------------------------------------------------------------
(* Properties of the run *)

\* The texts of the list that are not empty, joined by the delimiter
RECURSIVE JoinNonEmpty(_, _)
JoinNonEmpty(texts, delimiter) ==
    IF texts = <<>> THEN <<>>
    ELSE LET rest == JoinNonEmpty(Tail(texts), delimiter)
         IN  IF Head(texts) = <<>> THEN rest
             ELSE IF rest = <<>> THEN Head(texts)
             ELSE Head(texts) \o delimiter \o rest

\* The summaries and the fragments the generator returns for buckets 1..k
SummariesUpTo(k) == [j \in 1..k |-> resp[j].summary]

FragmentsUpTo(k) == [j \in 1..k |-> resp[j].mermaid_content]

LastCall == calls[Len(calls)]

\* C3 as claimed: a run stopped after bucket N, saved and checkpointed, and
\* resumed from the checkpoint over the remaining buckets with the same
\* generator answers returns the ProcessingState the uninterrupted run
\* returned.
C3_ResumedEqualsUninterrupted ==
    (phase = "resumed" /\ pc = "returned") => result = fullResult

\* C4: processBuckets invokes the generator once per bucket in the order
\* given; the invocation for bucket k gets the summary and the diagram
\* accumulated from the answers for exactly the buckets before k (and the
\* existing diagram); no invocation starts before the answer to the one
\* before it is folded in.
C4_InvocationsInOrder ==
    phase \in {"cli", "first"} =>
        /\ \A j \in DOMAIN calls :
              /\ calls[j].bucket = j
              /\ calls[j].files = buckets0[j].files
              /\ calls[j].summary = JoinNonEmpty(SummariesUpTo(j - 1), SummaryDelimiter)
              /\ calls[j].mermaid =
                    JoinNonEmpty(<<existingMermaid>> \o FragmentsUpTo(j - 1), FragmentDelimiter)
        /\ pc = "awaiting" => Len(calls) = i + 1
        /\ pc = "loop" => Len(calls) = i
        /\ pc = "returned" => Len(calls) = Len(pbBuckets)

C4_Witness ==
    /\ phase = "cli"
    /\ pc = "returned"
    /\ Len(calls) >= 3
    /\ existingMermaid # <<>>
    /\ Len(calls[3].summary) > Len(SummaryDelimiter)
    /\ Len(calls[3].mermaid) > 2 * Len(FragmentDelimiter)

\* C5: when the generator fails on a bucket, processBuckets throws that
\* error, returns no ProcessingState and invokes the generator for no later
\* bucket.
C5_FailureAbortsRun ==
    /\ \A j \in 1..(Len(calls) - 1) : resp[calls[j].bucket].ok
    /\ (calls # <<>> /\ pc # "awaiting" /\ ~resp[LastCall.bucket].ok) => pc = "thrown"
    /\ pc = "thrown" =>
          /\ result = <<>>
          /\ ~resp[LastCall.bucket].ok
          /\ error = <<resp[LastCall.bucket].error>>

C5_Witness ==
    /\ pc = "thrown"
    /\ Len(calls) >= 2
    /\ Len(calls) < Len(pbBuckets)
    /\ result = <<>>

\* What the state file holds of a state, but for the cursor
SavedProgress(st) ==
    [processed_files |-> st.processed_files,
     accumulated_summary |-> st.accumulated_summary,
     accumulated_mermaid |-> st.accumulated_mermaid]

\* C6 as claimed: before the generator is invoked for the next bucket the
\* state with the previous bucket's result has been saved, so when the
\* generator fails on bucket k the state file holds the state as of the
\* completion of bucket k-1.
C6_StateSavedAfterEachBucket ==
    (pc \in {"awaiting", "thrown"} /\ i >= 1) =>
        /\ stateFile # <<>>
        /\ SavedProgress(stateFile[1]) = SavedProgress(state)


\* The texts of the list that are not empty, in their order
NonEmptyOf(texts) ==
    LET NotEmpty(text) == text # <<>>
    IN  SelectSeq(texts, NotEmpty)

\* C25: the list of fragments handed to mergeOrRepairMermaid at the end of
\* the run is the prior diagram, when it is not empty, followed by the
\* fragment of each bucket whose fragment is not empty, one entry for each
\* in the order of the buckets and each text as it was returned; and
\* mergeOrRepairMermaid is invoked once.
C25_FragmentsAreExplicitList ==
    (phase \in {"cli", "cli-failed"} /\ mergeCalls # <<>>) =>
        mergeCalls = <<NonEmptyOf(<<existingMermaid>> \o FragmentsUpTo(Len(buckets0)))>>

-----------------------------------------------------------------------------
(* Properties of the handler's run *)

\* Files were discovered and createBuckets returned no bucket
AllSkipped ==
    /\ phase \in {"handler", "handler-failed", "handler-done"}
    /\ pc # "discovered"
    /\ files # <<>>
    /\ buckets0 = <<>>

\* C17: when files were discovered and every one of them was skipped, the
\* run ends with an error before processBucket or mergeOrRepairMermaid is
\* invoked, as it does when no file is discovered.
C17_AllSkippedEndsInError ==
    AllSkipped =>
        /\ calls = <<>>
        /\ mergeCalls = <<>>
        /\ phase # "handler-done"

\* The text generateFinalMermaidFile validated in its last call
ValidatedText == sanitizeMermaidContent(lastOp.args[1][1])

HasDiagramKeyword(text) ==
    \E k \in DOMAIN validStarts : Includes(ToLowerCase(text), ToLowerCase(validStarts[k]))

IsValidDiagram(text) ==
    /\ Trim(text) # <<>>
    /\ HasDiagramKeyword(text)
    /\ CountIn(text, {"["}) = CountIn(text, {"]"})
    /\ CountIn(text, {"("}) = CountIn(text, {")"})

\* C20: whatever mergeOrRepairMermaid answers, generateFinalMermaidFile
\* writes the content and returns it when the write succeeds, valid or not,
\* and the validation only gives warnings; validateMermaidSyntax finds the
\* text valid exactly when it is not blank, holds the name of a diagram type
\* (in any letter case) and has as many [ as ] and as many ( as ).
C20_ValidationNeverBlocks ==
    (lastOp.op = "generateFinalMermaidFile" /\ lastOp.args[1] # <<>>) =>
        \A text \in {ValidatedText} :
            /\ lastOp.args[2] =>
                  /\ lastOp.ok
                  /\ lastOp.ret # <<>>
                  /\ outputFile = lastOp.ret
                  /\ StartsWith(lastOp.ret[1], text)
                  /\ phase = "handler-done"
            /\ validateMermaidSyntax(text).valid <=> IsValidDiagram(text)
            /\ (warnings = <<>>) <=> IsValidDiagram(text)

\* a diagram with unbalanced parentheses, written and returned with its
\* warning
C20_Witness ==
    /\ lastOp.op = "generateFinalMermaidFile"
    /\ lastOp.ok
    /\ outputFile = lastOp.ret
    /\ warnings = <<"Unbalanced parentheses in diagram">>

C20_WitnessEmpty ==
    /\ lastOp.op = "generateFinalMermaidFile"
    /\ lastOp.ok
    /\ lastOp.args[1] = <<<<>>>>
    /\ outputFile = <<<<>>>>
    /\ warnings = <<"Empty diagram content">>

C20_WitnessValid ==
    /\ lastOp.op = "generateFinalMermaidFile"
    /\ lastOp.ok
    /\ lastOp.ret # <<<<>>>>
    /\ warnings = <<>>

-----------------------------------------------------------------------------
(* Properties of the StateManager *)

\* The last call met a storage that failed: a write that was attempted and
\* failed, or a read that failed
StorageFailed ==
    CASE lastOp.op = "saveState" -> ~lastOp.args[2]
      [] lastOp.op = "createCheckpoint" -> lastOp.after # <<>> /\ ~lastOp.args[2]
      [] lastOp.op = "loadState" -> ~lastOp.args[1]
      [] lastOp.op = "loadCheckpoint" -> ~lastOp.args[1]
      [] OTHER -> FALSE

\* C18: no operation of the StateManager throws because the storage failed:
\* saveState and createCheckpoint return after a failed write, loadState and
\* loadCheckpoint return null after a failed read.
C18_StorageFailureNeverRaised ==
    StorageFailed =>
        /\ lastOp.ok
        /\ lastOp.op \in {"loadState", "loadCheckpoint"} => lastOp.ret = <<>>

FileData(fs) == [k \in DOMAIN fs |-> CheckpointFileData(fs[k])]

\* The files of fs that can still be read, in their order
StillReadable(fs, unreadable) ==
    LET Readable(file) == file.path \notin unreadable
    IN  SelectSeq(fs, Readable)

\* C19: once createCheckpoint(buckets) has returned, a loadCheckpoint that
\* reads the checkpoint file returns the state that was held and as many
\* buckets, in the same order; each bucket holds the saved files that can
\* still be read, in the saved order, with the saved path, size, extension
\* and estimated_tokens; an unreadable file is left out and the call still
\* returns its result.
C19_CheckpointRoundTrip ==
    (lastOp.op = "loadCheckpoint" /\ checkpointed # <<>> /\ lastOp.args[1]) =>
        /\ lastOp.ret # <<>>
        /\ lastOp.ret[1].state = checkpointed[1].state
        /\ Len(lastOp.ret[1].buckets) = Len(checkpointed[1].buckets)
        /\ \A k \in DOMAIN checkpointed[1].buckets :
              FileData(lastOp.ret[1].buckets[k].files)
                = FileData(StillReadable(checkpointed[1].buckets[k].files, lastOp.args[2]))

\* a bucket that lost one of its two files
C19_Witness ==
    /\ lastOp.op = "loadCheckpoint"
    /\ checkpointed # <<>>
    /\ lastOp.ret # <<>>
    /\ Len(lastOp.ret[1].buckets) >= 2
    /\ \E k \in DOMAIN checkpointed[1].buckets :
          /\ Len(checkpointed[1].buckets[k].files) = 2
          /\ Len(lastOp.ret[1].buckets[k].files) = 1

\* a checkpoint loaded after the state held has changed
C19_WitnessStateChanged ==
    /\ lastOp.op = "loadCheckpoint"
    /\ lastOp.ret # <<>>
    /\ smState # <<>>
    /\ lastOp.ret[1].state # smState[1]

\* C29: every bucket loadCheckpoint returns weighs the sum of the weights
\* of the files it holds, also a bucket a file of which could not be read.
C29_LoadedBucketsWeighTheirFiles ==
    (lastOp.op = "loadCheckpoint" /\ lastOp.ret # <<>>) =>
        \A k \in DOMAIN lastOp.ret[1].buckets :
            lastOp.ret[1].buckets[k].total_tokens
              = calculateTotalTokens(lastOp.ret[1].buckets[k].files)

\* What a call does to the holding of a state: initializeState and
\* saveState leave one held, a loadState that returns a state leaves that
\* state held, a loadState that returns null and every other call but
\* resetState leave a state held exactly when one was, resetState leaves
\* none held
HeldAfterCall ==
    /\ lastOp'.op \in {"initializeState", "saveState"} => smState' # <<>>
    /\ lastOp'.op = "loadState" =>
          IF lastOp'.ret # <<>> THEN smState' = lastOp'.ret ELSE smState' = smState
    /\ lastOp'.op = "resetState" => smState' = <<>>
    /\ lastOp'.op \in {"updateState", "createCheckpoint", "getCurrentState"} =>
          (smState' = <<>>) = (smState = <<>>)

\* updateState and createCheckpoint with no state held raise and leave the
\* state, the state file and the checkpoint file as they were
RaisedWhenNoneHeld ==
    (lastOp'.op \in {"updateState", "createCheckpoint"} /\ smState = <<>>) =>
        /\ ~lastOp'.ok
        /\ lastOp'.op = "updateState" => lastOp'.ret = <<NotInitialized>>
        /\ UNCHANGED <<smState, stateFile, checkpointFile>>

\* updateState with a state held adds filesProcessed to processed_files
\* and sets the cursor
UpdatedWhenHeld ==
    (lastOp'.op = "updateState" /\ smState # <<>>) =>
        /\ lastOp'.ok
        /\ smState' # <<>>
        /\ smState'[1].processed_files = smState[1].processed_files + lastOp'.args[2]
        /\ smState'[1].current_bucket_index = lastOp'.args[1]
        /\ lastOp'.ret = smState'

\* C30 as claimed: a state is held exactly when initializeState, saveState
\* or a loadState that returned a state happened since the construction or
\* the last resetState; updateState and createCheckpoint raise and change
\* nothing when none is held; updateState adds filesProcessed to
\* processed_files and sets the cursor when one is held; right after
\* resetState, getCurrentState returns null and loadState returns null.
C30_HeldSinceInitialized ==
    [][/\ HeldAfterCall
       /\ RaisedWhenNoneHeld
       /\ UpdatedWhenHeld
       /\ (lastOp.op = "resetState" /\ lastOp'.op = "getCurrentState") => lastOp'.ret = <<>>
       /\ (lastOp.op = "resetState" /\ lastOp'.op = "loadState") => lastOp'.ret = <<>>]_vars

\* C30 as amended: the same, but that loadState returns null right after
\* a resetState that left no state file; after a resetState whose removal
\* of the file failed, loadState returns the state of the file.
C30_HeldSinceInitializedFileRemoved ==
    [][/\ HeldAfterCall
       /\ RaisedWhenNoneHeld
       /\ UpdatedWhenHeld
       /\ (lastOp.op = "resetState" /\ lastOp'.op = "getCurrentState") => lastOp'.ret = <<>>
       /\ (lastOp.op = "resetState" /\ lastOp.ok /\ lastOp'.op = "loadState") =>
             lastOp'.ret = <<>>
       /\ (lastOp.op = "resetState" /\ ~lastOp.ok /\ lastOp'.op = "loadState"
             /\ lastOp'.args[1]) => lastOp'.ret = stateFile]_vars

\* updateState raised for a manager that had held a state and was reset
C30_Witness ==
    /\ lastOp.op = "updateState"
    /\ ~lastOp.ok
    /\ smState = <<>>
    /\ checkpointFile # <<>>

\* a state initialized and updated twice
C30_WitnessUpdated ==
    /\ lastOp.op = "updateState"
    /\ lastOp.ok
    /\ smState[1].processed_files = MaxProcessed
    /\ smState[1].accumulated_mermaid = <<"A">> \o ComponentsDelimiter \o <<"A">>

\* loadState returned null for a manager that was reset and whose state
\* file is gone
C30_WitnessLoadedNone ==
    /\ lastOp.op = "loadState"
    /\ lastOp.args[1]
    /\ lastOp.ret = <<>>
    /\ smState = <<>>
    /\ checkpointFile # <<>>

-----------------------------------------------------------------------------
(* Properties of the sanitizer *)

\* C7: sanitizeMermaidContent is idempotent: a text that has been through
\* the sanitizer is not changed by a second pass.
C7_SanitizeIdempotent == passes >= 1 => sanitizeMermaidContent(sanText) = sanText


=============================================================================
